---- MODULE Spec2Model ----
(***************************************************************************)
(* BLEGraph: the MQTT ingestion path (main.py), the frame decoder          *)
(* (BLEParser.py) and the SQLite store (DatabaseManager.py).               *)
(*                                                                         *)
(* Text is modelled as a sequence of one-character strings, so that        *)
(* split, strip, int(), strptime and bytes.fromhex are computed rather     *)
(* than assumed.  A REAL column is an exact rational <<num, den>> in       *)
(* lowest terms.  The created_at columns (wall clock) are left out.        *)
(***************************************************************************)
EXTENDS Integers, Sequences, FiniteSets, TLC

(***************************************************************************)
(* Bounds of the model.                                                    *)
(***************************************************************************)
MaxRawLog == 2
MaxRows == 5
MaxMappings == 3
MaxSaves == 2

(***************************************************************************)
(* Text helpers.                                                           *)
(***************************************************************************)
DigitChars == {"0","1","2","3","4","5","6","7","8","9"}

DigitVal(c) ==
    CASE c = "0" -> 0 [] c = "1" -> 1 [] c = "2" -> 2 [] c = "3" -> 3
      [] c = "4" -> 4 [] c = "5" -> 5 [] c = "6" -> 6 [] c = "7" -> 7
      [] c = "8" -> 8 [] c = "9" -> 9

HexChars == DigitChars \cup {"a","b","c","d","e","f","A","B","C","D","E","F"}

HexVal(c) ==
    CASE c \in DigitChars -> DigitVal(c)
      [] c \in {"a","A"} -> 10 [] c \in {"b","B"} -> 11 [] c \in {"c","C"} -> 12
      [] c \in {"d","D"} -> 13 [] c \in {"e","E"} -> 14 [] c \in {"f","F"} -> 15

DigitChar(d) ==
    CASE d = 0 -> "0" [] d = 1 -> "1" [] d = 2 -> "2" [] d = 3 -> "3"
      [] d = 4 -> "4" [] d = 5 -> "5" [] d = 6 -> "6" [] d = 7 -> "7"
      [] d = 8 -> "8" [] d = 9 -> "9"

\* str(n) of a natural number: its decimal digits.
RECURSIVE Str(_)
Str(n) == IF n < 10 THEN <<DigitChar(n)>> ELSE Str(n \div 10) \o <<DigitChar(n % 10)>>

\* The value of a sequence of decimal digits.
RECURSIVE DecVal(_)
DecVal(s) == IF s = <<>> THEN 0 ELSE DecVal(SubSeq(s, 1, Len(s) - 1)) * 10 + DigitVal(s[Len(s)])

AllIn(s, chars) == \A i \in 1..Len(s) : s[i] \in chars

\* str.strip(): leading and trailing blanks removed.
RECURSIVE strip(_)
strip(s) ==
    IF s = <<>> THEN s
    ELSE IF Head(s) = " " THEN strip(Tail(s))
    ELSE IF s[Len(s)] = " " THEN strip(SubSeq(s, 1, Len(s) - 1))
    ELSE s

\* str.replace(' ', ''): every blank removed.
RemoveBlanks(s) == SelectSeq(s, LAMBDA c : c # " ")

\* str.split(sep) for a one-character separator: the fields between separators; the
\* empty text has one empty field.
SplitOn(s, sep) ==
    LET seps == {i \in 1..Len(s) : s[i] = sep}
        \* the position of the k-th separator; 0 before the text, Len(s) + 1 after it
        at(k) == IF k = 0 THEN 0
                 ELSE IF k > Cardinality(seps) THEN Len(s) + 1
                 ELSE CHOOSE i \in seps : Cardinality({j \in seps : j < i}) = k - 1
    IN  [k \in 1..(Cardinality(seps) + 1) |-> SubSeq(s, at(k - 1) + 1, at(k) - 1)]

\* str.split(',')
split(s) == SplitOn(s, ",")

\* ','.join(fields), used to build the payloads the model feeds in.
RECURSIVE Join(_)
Join(fields) ==
    IF Len(fields) = 1 THEN fields[1]
    ELSE fields[1] \o <<",">> \o Join(Tail(fields))

\* The digits of a Python numeric literal: decimal digits, single underscores allowed
\* between two digits.
IsDigits(s) ==
    /\ s # <<>>
    /\ AllIn(s, DigitChars \cup {"_"})
    /\ s[1] # "_" /\ s[Len(s)] # "_"
    /\ \A i \in 1..(Len(s) - 1) : ~(s[i] = "_" /\ s[i + 1] = "_")

DigitsOnly(s) == SelectSeq(s, LAMBDA c : c # "_")

DigitsVal(s) == DecVal(DigitsOnly(s))

\* int(text): blanks stripped, an optional sign, digits; ValueError otherwise.
ParseInt(text) ==
    LET t == strip(text)
        signed == t # <<>> /\ Head(t) \in {"-", "+"}
        digits == IF signed THEN Tail(t) ELSE t
    IN  IF IsDigits(digits)
        THEN [ok |-> TRUE, val |-> IF signed /\ Head(t) = "-" THEN 0 - DigitsVal(digits) ELSE DigitsVal(digits)]
        ELSE [ok |-> FALSE]

\* str(n) of an integer.
StrInt(n) == IF n < 0 THEN <<"-">> \o Str(0 - n) ELSE Str(n)

IsLeap(y) == (y % 4 = 0 /\ y % 100 # 0) \/ y % 400 = 0

DaysIn(y, m) ==
    IF m = 2 THEN (IF IsLeap(y) THEN 29 ELSE 28)
    ELSE IF m \in {4, 6, 9, 11} THEN 30 ELSE 31

\* datetime.strptime(text, "%Y-%m-%d %H:%M:%S") on full-width fields; ValueError otherwise.
strptime(text) ==
    LET num(a, b) == DecVal(SubSeq(text, a, b))
        shaped == /\ Len(text) = 19
                  /\ \A i \in 1..19 :
                        IF i \in {5, 8} THEN text[i] = "-"
                        ELSE IF i = 11 THEN text[i] = " "
                        ELSE IF i \in {14, 17} THEN text[i] = ":"
                        ELSE text[i] \in DigitChars
    IN  IF /\ shaped
           /\ num(1, 4) >= 1
           /\ num(6, 7) \in 1..12
           /\ num(9, 10) \in 1..DaysIn(num(1, 4), num(6, 7))
           /\ num(12, 13) <= 23 /\ num(15, 16) <= 59 /\ num(18, 19) <= 59
        THEN [ok |-> TRUE,
              val |-> <<num(1, 4), num(6, 7), num(9, 10), num(12, 13), num(15, 16), num(18, 19)>>]
        ELSE [ok |-> FALSE]

\* bytes.fromhex(text): pairs of hex digits; ValueError on an odd length or another character.
HexPairs(s) ==
    [k \in 1..(Len(s) \div 2) |-> HexVal(s[2 * k - 1]) * 16 + HexVal(s[2 * k])]

fromhex(text) ==
    IF Len(text) % 2 = 0 /\ AllIn(text, HexChars)
    THEN [ok |-> TRUE, val |-> HexPairs(text)]
    ELSE [ok |-> FALSE]

(***************************************************************************)
(* Exact rationals for the REAL columns.                                   *)
(***************************************************************************)
RECURSIVE Gcd(_, _)
Gcd(a, b) == IF b = 0 THEN a ELSE Gcd(b, a % b)

Abs(x) == IF x < 0 THEN 0 - x ELSE x

Frac(n, d) == LET g == Gcd(Abs(n), d) IN <<n \div g, d \div g>>

FracAdd(p, q) == Frac(p[1] * q[2] + q[1] * p[2], p[2] * q[2])

\* SQLite ROUND(x, digits): to the nearest 10^-digits, halves away from zero.
RECURSIVE Pow10(_)
Pow10(k) == IF k = 0 THEN 1 ELSE 10 * Pow10(k - 1)

ROUND(x, digits) ==
    LET scaled == Abs(x[1]) * Pow10(digits)
        nearest == (2 * scaled + x[2]) \div (2 * x[2])
    IN  Frac(IF x[1] < 0 THEN 0 - nearest ELSE nearest, Pow10(digits))

\* Lower case of the letters float() reads in "nan", "inf" and "infinity".
Lower(c) ==
    CASE c = "N" -> "n" [] c = "A" -> "a" [] c = "I" -> "i" [] c = "F" -> "f"
      [] c = "T" -> "t" [] c = "Y" -> "y" [] c = "E" -> "e" [] OTHER -> c

\* The digits and the decimal places of a mantissa split at its point: digits before
\* the point, after it, or both.
MantissaOf(ds) ==
    IF /\ Len(ds) <= 2
       /\ \A k \in 1..Len(ds) : ds[k] = <<>> \/ IsDigits(ds[k])
       /\ \E k \in 1..Len(ds) : ds[k] # <<>>
    THEN [ok |-> TRUE,
          digits |-> IF Len(ds) = 1 THEN DigitsVal(ds[1]) ELSE DigitsVal(ds[1] \o ds[2]),
          places |-> IF Len(ds) = 1 THEN 0 ELSE Len(DigitsOnly(ds[2]))]
    ELSE [ok |-> FALSE]

\* The exponent after the e: an optional sign and digits.
ExponentOf(x) ==
    IF x # <<>> /\ IsDigits(IF Head(x) \in {"-", "+"} THEN Tail(x) ELSE x)
    THEN [ok |-> TRUE,
          val |-> IF Head(x) = "-" THEN 0 - DigitsVal(Tail(x))
                  ELSE IF Head(x) = "+" THEN DigitsVal(Tail(x)) ELSE DigitsVal(x)]
    ELSE [ok |-> FALSE]

\* mantissa * 10^exponent as an exact rational.
Scale(m, x, negative) ==
    IF ~(m.ok /\ x.ok) THEN [ok |-> FALSE]
    ELSE [ok |-> TRUE,
          val |-> [kind |-> "num",
                   val |-> IF x.val >= m.places
                           THEN Frac((IF negative THEN 0 - m.digits ELSE m.digits)
                                     * Pow10(x.val - m.places), 1)
                           ELSE Frac(IF negative THEN 0 - m.digits ELSE m.digits,
                                     Pow10(m.places - x.val))]]

\* A decimal number split at its e: a mantissa and at most one exponent.
DecimalOf(parts, negative) ==
    IF Len(parts) > 2 THEN [ok |-> FALSE]
    ELSE Scale(MantissaOf(SplitOn(parts[1], ".")),
               IF Len(parts) = 2 THEN ExponentOf(parts[2]) ELSE [ok |-> TRUE, val |-> 0],
               negative)

FloatOf(lower, negative) ==
    IF lower = <<"n", "a", "n">> THEN [ok |-> TRUE, val |-> [kind |-> "nan"]]
    ELSE IF lower \in {<<"i", "n", "f">>, <<"i", "n", "f", "i", "n", "i", "t", "y">>}
    THEN [ok |-> TRUE, val |-> [kind |-> "inf", negative |-> negative]]
    ELSE DecimalOf(SplitOn(lower, "e"), negative)

Lowered(s) == [i \in 1..Len(s) |-> Lower(s[i])]

\* float(text): blanks stripped, an optional sign, then nan, inf, infinity, or a decimal
\* number with an optional fraction and an optional exponent; ValueError otherwise.
\* A number is kept as the exact rational the text denotes.
ParseFloat(text) ==
    LET t == strip(text)
    IN  IF t # <<>> /\ Head(t) \in {"-", "+"}
        THEN FloatOf(Lowered(Tail(t)), Head(t) = "-")
        ELSE FloatOf(Lowered(t), FALSE)

(***************************************************************************)
(* The texts the model feeds in.                                           *)
(***************************************************************************)
\* 15 bytes: temperature 0x14, pressure 0x00C801, seconds 2, slot 0 = (id 1, count 1).
HexFrameA ==
    <<"1","4","0","0","C","8","0","1","0","2","0","1","0","1","0","0","0","0","0","0","0","0","0","0","0","0","0","0","0","0">>

\* 15 bytes: seconds 4, slot 0 = (id 1, count 1).
HexFrameB ==
    <<"1","4","0","0","C","8","0","1","0","4","0","1","0","1","0","0","0","0","0","0","0","0","0","0","0","0","0","0","0","0">>

\* 15 bytes: seconds 0, slot 0 = (id 3, count 5).
HexFrameZ ==
    <<"1","4","0","0","C","8","0","1","0","0","0","3","0","5","0","0","0","0","0","0","0","0","0","0","0","0","0","0","0","0">>

\* 15 bytes: seconds 2, every slot with id 0.
HexFrameNone ==
    <<"1","4","0","0","C","8","0","1","0","2","0","0","0","0","0","0","0","0","0","0","0","0","0","0","0","0","0","0","0","0">>

\* 15 bytes: seconds 2, slot 0 = (id 1, count 1), slot 2 = (id 2, count 3).
HexFrameTwo ==
    <<"1","4","0","0","C","8","0","1","0","2","0","1","0","1","0","0","0","0","0","2","0","3","0","0","0","0","0","0","0","0">>

\* The hex text of the specification's scenario A: 32 digits, 16 bytes.
HexScenarioA ==
    <<"1","4","0","0","C","8","0","1","0","5","0","6","0","1","0","2","0","3","0","4","0","5","0","0","0","1","0","0","0","2","0","0">>

\* No hex text.
HexNotHex ==
    <<"z","z">>

\* 29 bytes: the window at 13..27 has seconds 2, slots (1,2) (0,0) (2,100) (0,0) (0,0); last byte 7.
HexFrameExt ==
    <<"0","0","0","0","0","0","0","0","0","0","0","0","0","0","0","0","0","0","0","0","0","0","0","0","0","0","1","4","0","0","C","8","0","1","0","2","0","1","0","2","0","0","0","0","0","2","6","4","0","0","0","0","0","0","0","0","0","7">>

TsOk1 ==
    <<"2","0","2","4","-","0","1","-","0","1"," ","0","0",":","0","0",":","0","0">>

TsOk2 ==
    <<"2","0","2","4","-","0","1","-","0","1"," ","0","0",":","0","0",":","0","1">>

\* Month 13: strptime raises ValueError.
TsBad ==
    <<"2","0","2","4","-","1","3","-","0","1"," ","0","0",":","0","0",":","0","0">>

GrpA ==
    <<"g","r","p","A">>

GrpB ==
    <<"g","r","p","B">>

GrpC ==
    <<"g","r","p","C">>

\* An external id that reads like a display label.
LabelAsId ==
    <<"T","e","s","t"," ","#","1">>

RssiA ==
    <<"-","6","0">>

RssiB ==
    <<" ","-","5","8">>

\* No number: int() raises ValueError.
RssiBad ==
    <<"x">>

Extra ==
    <<"e","x","t","r","a">>

\* The sender of the 15-byte layout.
SwiftDevice ==
    <<"s","w","i","f","t","_","d","e","v","i","c","e">>

\* f"Test #{count + 1}"
TestPrefix ==
    <<"T","e","s","t"," ","#">>

(***************************************************************************)
(* BLEParser: the frame decoder.                                           *)
(***************************************************************************)
None == [ok |-> FALSE]

\* A count at or above this marks the reading as having reached its target.
TargetCount == 100

\* Variant: with no elapsed second the rate is the count itself.
DeviceInfoCountAsRate(data_bytes, i, seconds, timestamp) ==
    LET idx == 5 + (i * 2)
        count == data_bytes[idx + 2]
    IN  [device_id |-> Str(data_bytes[idx + 1]),
         count |-> count,
         reception_rate |-> IF seconds > 0 THEN Frac(count, seconds) ELSE Frac(count, 1),
         timestamp |-> timestamp]

\* One neighbor slot of the 15-byte field layout: bytes idx and idx + 1 (0-based).
DeviceInfo(data_bytes, i, seconds, timestamp) ==
    LET idx == 5 + (i * 2)
        count == data_bytes[idx + 2]
    IN  [device_id |-> Str(data_bytes[idx + 1]),
         count |-> count,
         reception_rate |-> IF seconds > 0 THEN Frac(count, seconds) ELSE Frac(0, 1),
         timestamp |-> timestamp]

ParsedBLEData(sender_id, data_bytes, devices, timestamp) ==
    [ok |-> TRUE,
     sender_device_id |-> sender_id,
     temperature |-> data_bytes[1],
     atmospheric_pressure |-> Frac(data_bytes[2] * 65536 + data_bytes[3] * 256 + data_bytes[4], 100),
     seconds |-> data_bytes[5],
     devices |-> devices,
     has_reached_target |-> \E k \in 1..Len(devices) : devices[k].count >= TargetCount,
     raw_timestamp |-> timestamp]

\* Variant: the 15-byte layout with no slot dropped.
Parse15KeepsEverySlot(bytes_data, timestamp) ==
    LET devices == [i \in 1..5 |-> DeviceInfo(bytes_data, i - 1, bytes_data[5], timestamp)]
    IN  ParsedBLEData(SwiftDevice, bytes_data, devices, timestamp)

\* Variant: the long layout read from the start of the frame, "0" slots dropped.
Parse29AsCompact(bytes_data, timestamp) ==
    LET slots == [i \in 1..5 |-> DeviceInfo(bytes_data, i - 1, bytes_data[5], timestamp)]
        devices == SelectSeq(slots, LAMBDA d : d.device_id # <<"0">>)
    IN  ParsedBLEData(Str(bytes_data[Len(bytes_data)]), bytes_data, devices, timestamp)

\* The 15-byte layout: a slot whose id reads "0" is dropped.
_parse_15_byte_format(bytes_data, timestamp) ==
    LET slots == [i \in 1..5 |-> DeviceInfo(bytes_data, i - 1, bytes_data[5], timestamp)]
        devices == SelectSeq(slots, LAMBDA d : d.device_id # <<"0">>)
    IN  ParsedBLEData(SwiftDevice, bytes_data, devices, timestamp)

\* The layout of 29 bytes and more: bytes 13..27, every slot kept, sender = the last byte.
_parse_29_byte_format(bytes_data, timestamp) ==
    LET data_bytes == SubSeq(bytes_data, 14, 28)
        devices == [i \in 1..5 |-> DeviceInfo(data_bytes, i - 1, data_bytes[5], timestamp)]
    IN  ParsedBLEData(Str(bytes_data[Len(bytes_data)]), data_bytes, devices, timestamp)

\* Variant: the long layout is taken for frames of exactly 29 bytes only.
ParseExactly29(raw_data_hex, timestamp) ==
    LET bytes_data == fromhex(RemoveBlanks(raw_data_hex))
    IN  IF ~bytes_data.ok THEN None
        ELSE IF Len(bytes_data.val) = 15 THEN _parse_15_byte_format(bytes_data.val, timestamp)
        ELSE IF Len(bytes_data.val) = 29 THEN _parse_29_byte_format(bytes_data.val, timestamp)
        ELSE None

\* Variant: a frame of 16 bytes is read as a 15-byte frame with a spare byte.
Parse16AsCompact(raw_data_hex, timestamp) ==
    LET bytes_data == fromhex(RemoveBlanks(raw_data_hex))
    IN  IF ~bytes_data.ok THEN None
        ELSE IF Len(bytes_data.val) \in {15, 16} THEN _parse_15_byte_format(bytes_data.val, timestamp)
        ELSE IF Len(bytes_data.val) >= 29 THEN _parse_29_byte_format(bytes_data.val, timestamp)
        ELSE None

parse_ble_raw_data(raw_data_hex, timestamp) ==
    LET bytes_data == fromhex(RemoveBlanks(raw_data_hex))
    IN  IF ~bytes_data.ok THEN None
        ELSE IF Len(bytes_data.val) = 15 THEN _parse_15_byte_format(bytes_data.val, timestamp)
        ELSE IF Len(bytes_data.val) >= 29 THEN _parse_29_byte_format(bytes_data.val, timestamp)
        ELSE None

(***************************************************************************)
(* DatabaseManager: the SQLite store.  A table is a set of rows; `db' is   *)
(* the tables and the id counters, packaged for the operators.             *)
(***************************************************************************)
VARIABLES
    raw_log,                  \* rows [id, payload]
    device_reception_data,    \* rows [id, sender_device_id, receiver_device_id, reception_rate,
                              \*       timestamp, test_group, packet_rssi]
    average_reception_rates,  \* rows [id, node_id, neighbor_id, average_reception_rate,
                              \*       test_group, average_rssi]
    test_group_mapping,       \* rows [id, app_test_id, display_name]
    profile_results,          \* rows [id, device_id, avg_tx, avg_rx, test_method, timestamp,
                              \*       test_group_id, captured_txs, captured_rxs]
    sqlite_sequence,          \* table name -> the last AUTOINCREMENT id handed out
    last_call,                \* the last call made from outside: [op, arg]
    ret,                      \* what that call returned
    log,                      \* the log lines that call wrote: [sub, event]
    pc,                       \* per thread: where it stands
    frame                     \* per thread: its local variables

dbvars == <<raw_log, device_reception_data, average_reception_rates, test_group_mapping,
            profile_results, sqlite_sequence>>

vars == <<raw_log, device_reception_data, average_reception_rates, test_group_mapping,
          profile_results, sqlite_sequence, last_call, ret, log, pc, frame>>

DB ==
    [raw_log |-> raw_log,
     device_reception_data |-> device_reception_data,
     average_reception_rates |-> average_reception_rates,
     test_group_mapping |-> test_group_mapping,
     profile_results |-> profile_results,
     sqlite_sequence |-> sqlite_sequence]

\* The tables created with AUTOINCREMENT that clear_all_data lists.
Tables == {"device_reception_data", "average_reception_rates", "raw_log", "test_group_mapping"}

\* init_database: the tables exist and are empty.
EmptyDB ==
    [raw_log |-> {},
     device_reception_data |-> {},
     average_reception_rates |-> {},
     test_group_mapping |-> {},
     profile_results |-> {},
     sqlite_sequence |-> [t \in Tables \cup {"profile_results"} |-> 0]]

\* The columns of device_reception_data as init_database creates it.
device_reception_data_columns ==
    {"id", "sender_device_id", "receiver_device_id", "reception_rate", "timestamp",
     "test_group", "created_at", "packet_rssi"}

\* Variant: the SELECT names the column the table has.
AvgRssiColumnPacket == "packet_rssi"

\* The signal-strength column the SELECT of _update_average_rates names.
AvgRssiColumn == "rssi"

\* INTEGER PRIMARY KEY AUTOINCREMENT: one more than the largest id ever handed out.
NextId(db, table) == db.sqlite_sequence[table] + 1

Bump(db, table, n) == [db.sqlite_sequence EXCEPT ![table] = @ + n]

\* save_raw_log: one row appended to raw_log.
save_raw_log(db, payload) ==
    [db EXCEPT !.raw_log = @ \cup {[id |-> NextId(db, "raw_log"), payload |-> payload]},
               !.sqlite_sequence = Bump(db, "raw_log", 1)]

\* Variant: only the first device of the reading is stored.
InsertFirstObservation(db, parsed_data, test_group, packet_rssi) ==
    [db EXCEPT !.device_reception_data =
                   @ \cup {[id |-> NextId(db, "device_reception_data"),
                            sender_device_id |-> parsed_data.sender_device_id,
                            receiver_device_id |-> parsed_data.devices[k].device_id,
                            reception_rate |-> parsed_data.devices[k].reception_rate,
                            timestamp |-> parsed_data.devices[k].timestamp,
                            test_group |-> test_group,
                            packet_rssi |-> packet_rssi]
                           : k \in 1..(IF parsed_data.devices = <<>> THEN 0 ELSE 1)},
               !.sqlite_sequence =
                   Bump(db, "device_reception_data", IF parsed_data.devices = <<>> THEN 0 ELSE 1)]

\* The INSERT loop and commit of save_to_database: one row per device of the reading.
InsertObservations(db, parsed_data, test_group, packet_rssi) ==
    LET n == Len(parsed_data.devices)
        first == NextId(db, "device_reception_data")
        rows == {[id |-> first + k - 1,
                  sender_device_id |-> parsed_data.sender_device_id,
                  receiver_device_id |-> parsed_data.devices[k].device_id,
                  reception_rate |-> parsed_data.devices[k].reception_rate,
                  timestamp |-> parsed_data.devices[k].timestamp,
                  test_group |-> test_group,
                  packet_rssi |-> packet_rssi] : k \in 1..n}
    IN  [db EXCEPT !.device_reception_data = @ \cup rows,
                   !.sqlite_sequence = Bump(db, "device_reception_data", n)]

AvgKey(r) == <<r.sender_device_id, r.receiver_device_id, r.test_group>>

RECURSIVE SumOf(_, _)
SumOf(rows, column) ==
    IF rows = {} THEN Frac(0, 1)
    ELSE LET r == CHOOSE x \in rows : TRUE
             v == IF column = "reception_rate" THEN r[column] ELSE Frac(r[column], 1)
         IN  FracAdd(v, SumOf(rows \ {r}, column))

\* AVG(column) over a group of rows.
AVG(rows, column) ==
    LET s == SumOf(rows, column) IN Frac(s[1], s[2] * Cardinality(rows))

\* The SELECT ... GROUP BY of _update_average_rates: OperationalError (no such column)
\* when it names a column the table does not have.
SelectAverages(db) ==
    IF AvgRssiColumn \notin device_reception_data_columns THEN [ok |-> FALSE]
    ELSE [ok |-> TRUE,
          rows |-> {[key |-> k,
                     average_reception_rate |->
                         ROUND(AVG({r \in db.device_reception_data : AvgKey(r) = k},
                                   "reception_rate"), 2),
                     average_rssi |->
                         ROUND(AVG({r \in db.device_reception_data : AvgKey(r) = k},
                                   AvgRssiColumn), 0)]
                    : k \in {AvgKey(r) : r \in db.device_reception_data}}]

\* INSERT OR REPLACE of the selected rows, in the order the engine returned them: a row
\* with the same (node_id, neighbor_id, test_group) is deleted and the new row gets a new id.
RECURSIVE ReplaceAverages(_, _)
ReplaceAverages(db, results) ==
    IF results = {} THEN db
    ELSE LET row == CHOOSE x \in results : TRUE
             kept == {a \in db.average_reception_rates :
                         <<a.node_id, a.neighbor_id, a.test_group>> # row.key}
             new == [id |-> NextId(db, "average_reception_rates"),
                     node_id |-> row.key[1],
                     neighbor_id |-> row.key[2],
                     average_reception_rate |-> row.average_reception_rate,
                     test_group |-> row.key[3],
                     average_rssi |-> row.average_rssi]
         IN  ReplaceAverages([db EXCEPT !.average_reception_rates = kept \cup {new},
                                        !.sqlite_sequence = Bump(db, "average_reception_rates", 1)],
                             results \ {row})

\* Variant: the rates are selected and written first, the signal strengths after them,
\* so the failing SELECT leaves the rows of the first pass behind.
UpdatePartialAverages(db) ==
    ReplaceAverages(db, {[key |-> k,
                          average_reception_rate |->
                              ROUND(AVG({r \in db.device_reception_data : AvgKey(r) = k},
                                        "reception_rate"), 2),
                          average_rssi |-> <<>>]
                         : k \in {AvgKey(r) : r \in db.device_reception_data}})

\* _update_average_rates: the exception of the SELECT is caught and logged, nothing is written.
_update_average_rates(db) ==
    LET results == SelectAverages(db)
    IN  IF results.ok THEN ReplaceAverages(db, results.rows) ELSE db

\* save_to_database: the rows are committed, then the averages are recomputed.
save_to_database(db, parsed_data, test_group, packet_rssi) ==
    _update_average_rates(InsertObservations(db, parsed_data, test_group, packet_rssi))

\* The log lines of save_to_database for sub-record `sub'.
SaveLog(db, sub) ==
    <<[sub |-> sub, event |-> "Data saved successfully"]>>
    \o (IF SelectAverages(db).ok
        THEN <<[sub |-> sub, event |-> "Average reception rates updated"]>>
        ELSE <<[sub |-> sub, event |-> "Error updating average rates"]>>)

\* The SELECT of get_or_create_display_name: the rows mapping app_test_id.
LookupDisplayName(db, app_test_id) ==
    {m \in db.test_group_mapping : m.app_test_id = app_test_id}

\* Variant: the label is numbered by the id counter of the table.
NewDisplayNameBySequence(db) == TestPrefix \o Str(NextId(db, "test_group_mapping"))

\* SELECT count(id) FROM test_group_mapping, turned into the next label.
NewDisplayName(db) == TestPrefix \o Str(Cardinality(db.test_group_mapping) + 1)

\* The INSERT of get_or_create_display_name: app_test_id is UNIQUE, a second row for
\* it raises IntegrityError and the transaction is rolled back.
InsertMapping(db, app_test_id, display_name) ==
    IF LookupDisplayName(db, app_test_id) # {} THEN [ok |-> FALSE, db |-> db]
    ELSE [ok |-> TRUE,
          db |-> [db EXCEPT !.test_group_mapping =
                               @ \cup {[id |-> NextId(db, "test_group_mapping"),
                                        app_test_id |-> app_test_id,
                                        display_name |-> display_name]},
                            !.sqlite_sequence = Bump(db, "test_group_mapping", 1)]]

\* get_or_create_display_name run alone: the stored label, or a new one.
get_or_create_display_name(db, app_test_id) ==
    LET result == LookupDisplayName(db, app_test_id)
    IN  IF result # {} THEN [db |-> db, ret |-> (CHOOSE m \in result : TRUE).display_name]
        ELSE [db |-> InsertMapping(db, app_test_id, NewDisplayName(db)).db,
              ret |-> NewDisplayName(db)]

\* Variant: the DELETE on device_reception_data has no WHERE clause.
DeleteEveryGroup(db, display_name) ==
    [db EXCEPT !.device_reception_data = {},
               !.average_reception_rates = {a \in @ : a.test_group # display_name},
               !.test_group_mapping = {m \in @ : m.display_name # display_name}]

\* Variant: the DELETE on test_group_mapping is left out.
DeleteKeepsMapping(db, display_name) ==
    [db EXCEPT !.device_reception_data = {r \in @ : r.test_group # display_name},
               !.average_reception_rates = {a \in @ : a.test_group # display_name}]

\* delete_test_group_data: three DELETEs in one transaction; raw_log is not touched.
delete_test_group_data(db, display_name) ==
    [db EXCEPT !.device_reception_data = {r \in @ : r.test_group # display_name},
               !.average_reception_rates = {a \in @ : a.test_group # display_name},
               !.test_group_mapping = {m \in @ : m.display_name # display_name}]

\* Variant: test_group_mapping is not among the tables cleared.
ClearKeepsMapping(db) ==
    [db EXCEPT !.device_reception_data = {},
               !.average_reception_rates = {},
               !.raw_log = {},
               !.sqlite_sequence = [t \in DOMAIN @ |-> IF t \in Tables \ {"test_group_mapping"}
                                                      THEN 0 ELSE @[t]]]

\* clear_all_data: every listed table emptied and its id counter dropped.
clear_all_data(db) ==
    [db EXCEPT !.device_reception_data = {},
               !.average_reception_rates = {},
               !.raw_log = {},
               !.test_group_mapping = {},
               !.sqlite_sequence = [t \in DOMAIN @ |-> IF t \in Tables THEN 0 ELSE @[t]]]

\* get_all_test_groups: the distinct test_group values of average_reception_rates.
get_all_test_groups(db) == {a.test_group : a \in db.average_reception_rates}

\* ','.join(map(str, values)): the text the sample arrays are stored as.
RECURSIVE JoinInts(_)
JoinInts(values) ==
    IF values = <<>> THEN <<>>
    ELSE IF Len(values) = 1 THEN StrInt(values[1])
    ELSE StrInt(values[1]) \o <<",">> \o JoinInts(Tail(values))

ProfileKey(r) == <<r.device_id, r.test_method, r.test_group_id>>

\* INSERT OR REPLACE INTO profile_results: the row stored for the same
\* (device_id, test_method, test_group_id) is deleted, the new row gets a new id.
ReplaceProfileRow(db, row) ==
    [db EXCEPT !.profile_results =
                   {r \in @ : ProfileKey(r) # ProfileKey(row)}
                   \cup {[row EXCEPT !.id = NextId(db, "profile_results")]},
               !.sqlite_sequence = Bump(db, "profile_results", 1)]

\* save_profile_result: avg_tx and avg_rx are REAL NOT NULL and a NaN is bound as NULL,
\* so the INSERT raises IntegrityError; the exception is caught and logged.
save_profile_result(db, device_id, avg_tx, avg_rx, test_method, timestamp, test_group_id, captured_txs, captured_rxs) ==
    LET row == [id |-> 0,
                device_id |-> device_id,
                avg_tx |-> avg_tx,
                avg_rx |-> avg_rx,
                test_method |-> test_method,
                timestamp |-> timestamp,
                test_group_id |-> test_group_id,
                captured_txs |-> JoinInts(captured_txs),
                captured_rxs |-> JoinInts(captured_rxs)]
    IN  IF avg_tx.kind = "nan" \/ avg_rx.kind = "nan"
        THEN [ok |-> FALSE, db |-> db,
              log |-> <<[sub |-> 0, event |-> "Error saving profile result to database"]>>]
        ELSE [ok |-> TRUE, db |-> ReplaceProfileRow(db, row),
              log |-> <<[sub |-> 0, event |-> "Profile result saved"]>>]

\* delete_profile_results_by_group: returns whether a row was deleted.
delete_profile_results_by_group(db, device_id, test_group_id) ==
    LET gone == {r \in db.profile_results :
                    r.device_id = device_id /\ r.test_group_id = test_group_id}
    IN  [db |-> [db EXCEPT !.profile_results = @ \ gone], ret |-> gone # {}]

\* delete_all_profile_results_for_device: returns whether a row was deleted.
delete_all_profile_results_for_device(db, device_id) ==
    LET gone == {r \in db.profile_results : r.device_id = device_id}
    IN  [db |-> [db EXCEPT !.profile_results = @ \ gone], ret |-> gone # {}]

(***************************************************************************)
(* main.py: the ingestion of one MQTT message.                             *)
(***************************************************************************)
\* Tokens per sub-record of the compact log: hex, rssi, timestamp, test id.
FieldsPerRecord == 4

\* Variant: the token count is not looked at.
AnyTokenCount(components) == FALSE

\* len(components) % 4 != 0: the payload is refused as a whole.
InvalidFormat(components) == Len(components) % FieldsPerRecord # 0

\* Variant: a skipped sub-record ends the loop.
SkipEndsLoop(components, i) == Len(components)

\* `continue' after a sub-record that is skipped: the loop goes on with the next one.
NextAfterSkip(components, i) == i + FieldsPerRecord

\* The test group a sub-record is stored under: the app's id as received (the call of
\* get_or_create_display_name is commented out).
StoredTestGroup(db, app_test_id) == app_test_id

\* One pass of the loop of _process_ble_log_message, for the sub-record at token i
\* (0-based): what happens to it, and the table after the INSERTs of save_to_database.
ProcessRecord(db, components, i) ==
    LET raw_data_hex == strip(components[i + 1])
        rssi == strip(components[i + 2])
        timestamp_str == strip(components[i + 3])
        app_test_id == strip(components[i + 4])
        timestamp == strptime(timestamp_str)
        parsed_data == parse_ble_raw_data(raw_data_hex, timestamp.val)
        packet_rssi == ParseInt(rssi)
    IN  IF ~timestamp.ok THEN [event |-> "Timestamp parsing failed", db |-> db]
        ELSE IF ~parsed_data.ok THEN [event |-> "Failed to parse raw data", db |-> db]
        ELSE IF ~packet_rssi.ok THEN [event |-> "Error in _process_ble_log_message", db |-> db]
        ELSE [event |-> "Data saved successfully",
              db |-> InsertObservations(db, parsed_data, StoredTestGroup(db, app_test_id),
                                        packet_rssi.val)]

\* The loop of _process_ble_log_message from token i on.  A skipped sub-record is
\* followed by the next one; an exception other than the timestamp's ValueError leaves
\* the loop (the handler's except logs it).
RECURSIVE ProcessRecords(_, _, _, _)
ProcessRecords(db, components, i, lines) ==
    IF i >= Len(components) THEN [db |-> db, log |-> lines]
    ELSE IF ~(i + 3 < Len(components))
    THEN ProcessRecords(db, components, i + FieldsPerRecord, lines)
    ELSE
      LET sub == (i \div FieldsPerRecord) + 1
          r == ProcessRecord(db, components, i)
      IN  IF r.event \in {"Timestamp parsing failed", "Failed to parse raw data"}
          THEN ProcessRecords(db, components, NextAfterSkip(components, i),
                              Append(lines, [sub |-> sub, event |-> r.event]))
          ELSE IF r.event = "Error in _process_ble_log_message"
          THEN [db |-> db, log |-> Append(lines, [sub |-> sub, event |-> r.event])]
          ELSE ProcessRecords(_update_average_rates(r.db), components,
                              i + FieldsPerRecord, lines \o SaveLog(r.db, sub))

_process_ble_log_message(db, payload) ==
    LET components == split(payload)
    IN  IF InvalidFormat(components)
        THEN [db |-> db, log |-> <<[sub |-> 0, event |-> "Invalid BLE log format"]>>]
        ELSE ProcessRecords(db, components, 0, <<>>)

\* [int(val) for val in text.split(';') if val]: the empty fields are passed over;
\* ValueError when a field is no integer.
ParseSamples(text) ==
    LET fields == SelectSeq(SplitOn(text, ";"), LAMBDA val : val # <<>>)
    IN  IF \A k \in 1..Len(fields) : ParseInt(fields[k]).ok
        THEN [ok |-> TRUE, val |-> [k \in 1..Len(fields) |-> ParseInt(fields[k]).val]]
        ELSE [ok |-> FALSE]

ProfileFields == 8

\* _process_profile_result_message: a message of another field count is refused; a
\* ValueError of float(), int() or strptime is logged and nothing is saved.
_process_profile_result_message(db, payload) ==
    LET parts == split(payload)
        avg_tx == ParseFloat(strip(parts[2]))
        avg_rx == ParseFloat(strip(parts[3]))
        captured_txs == ParseSamples(strip(parts[7]))
        captured_rxs == ParseSamples(strip(parts[8]))
        timestamp == strptime(strip(parts[5]))
        saved == save_profile_result(db, strip(parts[1]), avg_tx.val, avg_rx.val,
                                     strip(parts[4]), timestamp.val, strip(parts[6]),
                                     captured_txs.val, captured_rxs.val)
    IN  IF Len(parts) # ProfileFields
        THEN [db |-> db, log |-> <<[sub |-> 0, event |-> "Invalid Profile result format"]>>]
        ELSE IF ~(avg_tx.ok /\ avg_rx.ok /\ captured_txs.ok /\ captured_rxs.ok /\ timestamp.ok)
        THEN [db |-> db, log |-> <<[sub |-> 0, event |-> "Error parsing profile result payload"]>>]
        ELSE [db |-> saved.db, log |-> saved.log]

\* _process_profile_delete_message: the payload is the device id.
_process_profile_delete_message(db, payload) ==
    LET device_id == strip(payload)
    IN  IF device_id = <<>>
        THEN [db |-> db,
              log |-> <<[sub |-> 0, event |-> "Received empty payload for profile delete request"]>>]
        ELSE [db |-> delete_all_profile_results_for_device(db, device_id).db,
              log |-> <<[sub |-> 0, event |-> "Deleted all profile results for device"]>>]

\* _on_message_callback: the payload goes to raw_log first, then to the topic's handler.
_on_message_callback(db, topic, payload) ==
    IF topic = "log/scanner/upload"
    THEN _process_ble_log_message(save_raw_log(db, payload), payload)
    ELSE IF topic = "profile/result/upload"
    THEN _process_profile_result_message(save_raw_log(db, payload), payload)
    ELSE IF topic = "profile/result/delete"
    THEN _process_profile_delete_message(save_raw_log(db, payload), payload)
    ELSE [db |-> save_raw_log(db, payload),
          log |-> <<[sub |-> 0, event |-> "Received message on unhandled topic"]>>]

(***************************************************************************)
(* The inputs of the model.                                                *)
(***************************************************************************)
LogTopic == "log/scanner/upload"

Topics == {LogTopic, "other/topic"}

\* One sub-record, group grpA.
PayloadOne == Join(<<HexFrameA, RssiA, TsOk1, GrpA>>)

\* Scenario B: two sub-records of grpA.
PayloadTwo == Join(<<HexFrameA, RssiA, TsOk1, GrpA, HexFrameB, RssiB, TsOk2, GrpA>>)

\* Scenario B with the second timestamp failing to parse.
PayloadBadTsSecond == Join(<<HexFrameA, RssiA, TsOk1, GrpA, HexFrameB, RssiB, TsBad, GrpA>>)

\* The first timestamp fails to parse, the second sub-record is sound.
PayloadBadTsFirst == Join(<<HexFrameA, RssiA, TsBad, GrpA, HexFrameB, RssiB, TsOk2, GrpB>>)

\* A sound sub-record, a frame of 16 bytes, no hex at all, then a sound sub-record.
PayloadBadFrames ==
    Join(<<HexFrameA, RssiA, TsOk1, GrpA, HexScenarioA, RssiA, TsOk1, GrpA,
           HexNotHex, RssiA, TsOk1, GrpA, HexFrameZ, RssiB, TsOk2, LabelAsId>>)

\* Five tokens and three tokens: no multiple of 4.
PayloadFive == Join(<<HexFrameA, RssiA, TsOk1, GrpA, Extra>>)

PayloadThree == Join(<<HexFrameA, RssiA, TsOk1>>)

\* The first sub-record's signal strength is no number.
PayloadBadRssi == Join(<<HexFrameA, RssiBad, TsOk1, GrpA, HexFrameB, RssiB, TsOk2, GrpA>>)

\* The extended layout, group grpB.
PayloadExt == Join(<<HexFrameExt, RssiA, TsOk1, GrpB>>)

Payloads ==
    {PayloadOne, PayloadTwo, PayloadBadTsSecond, PayloadBadTsFirst, PayloadBadFrames,
     PayloadFive, PayloadThree, PayloadBadRssi, PayloadExt}

\* The readings handed to save_to_database directly: one, no and two neighbors.
ReadingA == parse_ble_raw_data(HexFrameA, strptime(TsOk1).val)

Readings ==
    {ReadingA} \cup {parse_ble_raw_data(hex, strptime(TsOk1).val) : hex \in {HexFrameNone, HexFrameTwo}}

ExternalIds == {GrpA, GrpB, GrpC}

DisplayNames == {TestPrefix \o Str(n) : n \in 1..MaxMappings}

(***************************************************************************)
(* Spec: the message handler and the store's administration, one call at   *)
(* a time.                                                                 *)
(***************************************************************************)
Call(op, arg) == [op |-> op, arg |-> arg]

NoReturn == [kind |-> "none"]

Returned(v) == [kind |-> "value", val |-> v]

Commit(db) ==
    /\ raw_log' = db.raw_log
    /\ device_reception_data' = db.device_reception_data
    /\ average_reception_rates' = db.average_reception_rates
    /\ test_group_mapping' = db.test_group_mapping
    /\ profile_results' = db.profile_results
    /\ sqlite_sequence' = db.sqlite_sequence

InitDB ==
    /\ raw_log = EmptyDB.raw_log
    /\ device_reception_data = EmptyDB.device_reception_data
    /\ average_reception_rates = EmptyDB.average_reception_rates
    /\ test_group_mapping = EmptyDB.test_group_mapping
    /\ profile_results = EmptyDB.profile_results
    /\ sqlite_sequence = EmptyDB.sqlite_sequence

Init ==
    /\ InitDB
    /\ last_call = Call("init_database", <<>>)
    /\ ret = NoReturn
    /\ log = <<>>
    /\ pc = <<>>
    /\ frame = <<>>

\* One MQTT message delivered to _on_message_callback.
OnMessage(topic, payload) ==
    LET r == _on_message_callback(DB, topic, payload)
    IN  /\ sqlite_sequence["raw_log"] < MaxRawLog
        /\ r.db.sqlite_sequence["device_reception_data"] <= MaxRows
        /\ Commit(r.db)
        /\ last_call' = Call("_on_message_callback", <<topic, payload>>)
        /\ ret' = NoReturn
        /\ log' = r.log
        /\ UNCHANGED <<pc, frame>>

\* _update_average_rates called on its own; the argument counts the calls in a row (1, 2).
UpdateAverageRates ==
    /\ Commit(_update_average_rates(DB))
    /\ last_call' = Call("_update_average_rates",
                         IF last_call.op = "_update_average_rates" THEN <<2>> ELSE <<1>>)
    /\ ret' = NoReturn
    /\ log' = IF SelectAverages(DB).ok
              THEN <<[sub |-> 0, event |-> "Average reception rates updated"]>>
              ELSE <<[sub |-> 0, event |-> "Error updating average rates"]>>
    /\ UNCHANGED <<pc, frame>>

DeleteTestGroupData(display_name) ==
    /\ Commit(delete_test_group_data(DB, display_name))
    /\ last_call' = Call("delete_test_group_data", <<display_name>>)
    /\ ret' = Returned(TRUE)
    /\ log' = <<[sub |-> 0, event |-> "Successfully deleted all data for test group"]>>
    /\ UNCHANGED <<pc, frame>>

ClearAllData ==
    /\ Commit(clear_all_data(DB))
    /\ last_call' = Call("clear_all_data", <<>>)
    /\ ret' = Returned(TRUE)
    /\ log' = <<[sub |-> 0, event |-> "Database cleared successfully"]>>
    /\ UNCHANGED <<pc, frame>>

Next ==
    \/ \E payload \in Payloads : OnMessage(LogTopic, payload)
    \/ OnMessage("other/topic", PayloadOne)
    \/ UpdateAverageRates
    \/ \E display_name \in {GrpA, LabelAsId} : DeleteTestGroupData(display_name)
    \/ ClearAllData

Spec == Init /\ [][Next]_vars

(***************************************************************************)
(* SpecStore: the store's own operations called directly, one at a time.   *)
(***************************************************************************)
SaveRawLog(payload) ==
    /\ sqlite_sequence["raw_log"] < MaxRawLog
    /\ Commit(save_raw_log(DB, payload))
    /\ last_call' = Call("save_raw_log", <<payload>>)
    /\ ret' = NoReturn
    /\ log' = <<>>
    /\ UNCHANGED <<pc, frame>>

SaveToDatabase(parsed_data, test_group, packet_rssi) ==
    LET inserted == InsertObservations(DB, parsed_data, test_group, packet_rssi)
    IN  /\ inserted.sqlite_sequence["device_reception_data"] <= MaxSaves
        /\ Commit(_update_average_rates(inserted))
        /\ last_call' = Call("save_to_database", <<parsed_data, test_group, packet_rssi>>)
        /\ ret' = NoReturn
        /\ log' = SaveLog(inserted, 0)
        /\ UNCHANGED <<pc, frame>>

GetOrCreateDisplayName(app_test_id) ==
    LET r == get_or_create_display_name(DB, app_test_id)
    IN  /\ r.db.sqlite_sequence["test_group_mapping"] <= MaxMappings
        /\ Commit(r.db)
        /\ last_call' = Call("get_or_create_display_name", <<app_test_id>>)
        /\ ret' = Returned(r.ret)
        /\ log' = IF LookupDisplayName(DB, app_test_id) = {}
                  THEN <<[sub |-> 0, event |-> "New test ID detected"]>>
                  ELSE <<>>
        /\ UNCHANGED <<pc, frame>>

NextStore ==
    \/ SaveRawLog(PayloadOne)
    \/ \E parsed_data \in Readings, test_group \in {TestPrefix \o Str(1), TestPrefix \o Str(2)} :
          SaveToDatabase(parsed_data, test_group, 0 - 60)
    \/ \E app_test_id \in ExternalIds : GetOrCreateDisplayName(app_test_id)
    \/ \E display_name \in DisplayNames : DeleteTestGroupData(display_name)
    \/ ClearAllData

SpecStore == Init /\ [][NextStore]_vars

(***************************************************************************)
(* Claims.                                                                 *)
(***************************************************************************)
AverageRowsOf(key) ==
    {a \in average_reception_rates : <<a.node_id, a.neighbor_id, a.test_group>> = key}

RawRowsOf(key) == {r \in device_reception_data : AvgKey(r) = key}

\* C1: every key (sender, neighbor, test group) with a raw observation has exactly one
\* row in average_reception_rates, and its average rate is the arithmetic mean of the
\* reception rates of the raw observations with that key.
C1_AveragesAreMeans ==
    \A r \in device_reception_data :
        /\ Cardinality(AverageRowsOf(AvgKey(r))) = 1
        /\ \A a \in AverageRowsOf(AvgKey(r)) :
              a.average_reception_rate = AVG(RawRowsOf(AvgKey(r)), "reception_rate")

\* C2: the test-group mapping is a bijection in every reachable state: no two external
\* ids share a display label, and an id that stays mapped keeps the label it was given.
C2_MappingBijection ==
    [][/\ \A m, n \in test_group_mapping' :
             m.display_name = n.display_name => m.app_test_id = n.app_test_id
       /\ \A m \in test_group_mapping, n \in test_group_mapping' :
             m.app_test_id = n.app_test_id => m.display_name = n.display_name]_vars

\* The external group ids of a compact-log payload's sub-records.
GroupIdsOf(payload) ==
    {strip(split(payload)[4 * k]) : k \in 1..(Len(split(payload)) \div 4)}

IngestStep == last_call'.op = "_on_message_callback" /\ last_call'.arg[1] = LogTopic

\* C3: every raw observation that ingest persists for a compact-log sub-record carries
\* as its test group the display label the resolver maps that sub-record's external
\* group id to.
C3_StoredUnderResolvedLabel ==
    [][IngestStep =>
          \A r \in device_reception_data' \ device_reception_data :
              \E m \in test_group_mapping' :
                  /\ m.app_test_id \in GroupIdsOf(last_call'.arg[2])
                  /\ m.display_name = r.test_group]_vars

C7_RawLogAppendOnly ==
    [][/\ raw_log \subseteq raw_log'
       /\ last_call'.op = "_on_message_callback" =>
             Cardinality(raw_log') = Cardinality(raw_log) + 1]_vars

\* C8: delete_test_group_data(L) removes every raw observation, every average row and
\* every mapping entry of group L, and leaves raw_log and the rows of the other groups
\* as they were.
C8_PurgeFrame ==
    [][last_call'.op = "delete_test_group_data" =>
          LET L == last_call'.arg[1]
          IN  /\ device_reception_data' = {r \in device_reception_data : r.test_group # L}
              /\ average_reception_rates' = {a \in average_reception_rates : a.test_group # L}
              /\ test_group_mapping' = {m \in test_group_mapping : m.display_name # L}
              /\ raw_log' = raw_log]_vars

\* C8 witness: a purge has just removed the rows and the mapping entry of its group
\* while another group's rows, another mapping entry and the audit log are in place.
C8_Witness ==
    /\ last_call.op = "delete_test_group_data"
    /\ sqlite_sequence["device_reception_data"] = Cardinality(device_reception_data) + 1
    /\ sqlite_sequence["test_group_mapping"] = Cardinality(test_group_mapping) + 1
    /\ \A r \in device_reception_data : r.test_group # last_call.arg[1]
    /\ \A m \in test_group_mapping : m.display_name # last_call.arg[1]
    /\ device_reception_data # {}
    /\ test_group_mapping # {}
    /\ raw_log # {}

\* C9: a compact-log payload whose token count is no multiple of 4 is refused as a
\* whole: ingesting it adds or changes no raw observation, average row or mapping entry.
C9_RejectedWholesale ==
    [][(IngestStep /\ Len(split(last_call'.arg[2])) % 4 # 0) =>
          /\ device_reception_data' = device_reception_data
          /\ average_reception_rates' = average_reception_rates
          /\ test_group_mapping' = test_group_mapping]_vars

\* C9 witness: a five-token payload was ingested after a payload that stored rows.
C9_Witness ==
    /\ last_call = Call("_on_message_callback", <<LogTopic, PayloadFive>>)
    /\ log = <<[sub |-> 0, event |-> "Invalid BLE log format"]>>
    /\ device_reception_data # {}
    /\ Cardinality(raw_log) = 2

\* Sub-record j of a payload: whether its timestamp or its frame fails.
SubFails(payload, j) ==
    LET c == split(payload)
        ts == strptime(strip(c[4 * j - 1]))
    IN  ~ts.ok \/ ~parse_ble_raw_data(strip(c[4 * j - 3]), ts.val).ok

\* The devices sub-record j holds when it decodes.
SubDevices(payload, j) ==
    LET c == split(payload)
    IN  Len(parse_ble_raw_data(strip(c[4 * j - 3]), strptime(strip(c[4 * j - 1])).val).devices)

Logged(lines, j, events) ==
    \E n \in 1..Len(lines) : lines[n].sub = j /\ lines[n].event \in events

RECURSIVE SavedDevices(_, _, _)
SavedDevices(payload, lines, j) ==
    IF j = 0 THEN 0
    ELSE SavedDevices(payload, lines, j - 1)
         + (IF Logged(lines, j, {"Data saved successfully"}) THEN SubDevices(payload, j) ELSE 0)

SkipEvents == {"Timestamp parsing failed", "Failed to parse raw data"}

\* C10: in a payload of 4k tokens a sub-record whose timestamp or frame fails is skipped
\* alone: it stores nothing, the rows of the sub-records stored before it stay, and the
\* loop goes on with the next sub-record.
C10_SkipOnlyFailed ==
    [][(IngestStep /\ Len(split(last_call'.arg[2])) % 4 = 0) =>
          LET payload == last_call'.arg[2]
              k == Len(split(payload)) \div 4
          IN  /\ device_reception_data \subseteq device_reception_data'
              /\ Cardinality(device_reception_data' \ device_reception_data)
                    = SavedDevices(payload, log', k)
              /\ \A j \in 1..k :
                    (Logged(log', j, SkipEvents \cup {"Data saved successfully"})
                     /\ SubFails(payload, j)) =>
                        /\ Logged(log', j, SkipEvents)
                        /\ ~Logged(log', j, {"Data saved successfully"})
                        /\ j < k => Logged(log', j + 1, SkipEvents \cup
                                 {"Data saved successfully", "Error in _process_ble_log_message"})]_vars

\* C10 witness: in the last payload a sub-record was stored and a later one skipped, and
\* a sub-record was skipped and a later one stored.
C10_Witness ==
    /\ last_call.op = "_on_message_callback"
    /\ \E i, j \in 1..(Len(split(last_call.arg[2])) \div 4) :
          i < j /\ Logged(log, i, {"Data saved successfully"}) /\ Logged(log, j, SkipEvents)
    /\ \E i, j \in 1..(Len(split(last_call.arg[2])) \div 4) :
          i < j /\ Logged(log, i, SkipEvents) /\ Logged(log, j, {"Data saved successfully"})
    /\ Cardinality(device_reception_data) >= 2

(***************************************************************************)
(* SpecResolveRace: two callers inside get_or_create_display_name, each on *)
(* its own connection.  A SELECT runs in autocommit; the INSERT and its    *)
(* commit are one write transaction.                                       *)
(***************************************************************************)
Callers == {1, 2}

IdleFrame == [app_test_id |-> <<>>, missed |-> FALSE, new_display_name |-> <<>>]

InitResolveRace ==
    /\ InitDB
    /\ last_call = Call("init_database", <<>>)
    /\ ret = [t \in Callers |-> NoReturn]
    /\ log = <<>>
    /\ pc = [t \in Callers |-> "idle"]
    /\ frame = [t \in Callers |-> IdleFrame]

\* A caller enters get_or_create_display_name(app_test_id).
ResolveCall(t, app_test_id) ==
    /\ pc[t] = "idle"
    /\ pc' = [pc EXCEPT ![t] = "select"]
    /\ frame' = [frame EXCEPT ![t] = [IdleFrame EXCEPT !.app_test_id = app_test_id]]
    /\ ret' = [ret EXCEPT ![t] = NoReturn]
    /\ UNCHANGED <<dbvars, last_call, log>>

\* SELECT display_name ... WHERE app_test_id = ?: return the label, or go on to create one.
ResolveSelect(t) ==
    LET result == LookupDisplayName(DB, frame[t].app_test_id)
    IN  /\ pc[t] = "select"
        /\ pc' = [pc EXCEPT ![t] = IF result # {} THEN "idle" ELSE "count"]
        /\ frame' = [frame EXCEPT ![t].missed = (result = {})]
        /\ ret' = [ret EXCEPT ![t] = IF result # {}
                                      THEN Returned((CHOOSE m \in result : TRUE).display_name)
                                      ELSE NoReturn]
        /\ UNCHANGED <<dbvars, last_call, log>>

\* SELECT count(id): the new label is made from the count read here.
ResolveCount(t) ==
    /\ pc[t] = "count"
    /\ pc' = [pc EXCEPT ![t] = "insert"]
    /\ frame' = [frame EXCEPT ![t].new_display_name = NewDisplayName(DB)]
    /\ UNCHANGED <<dbvars, last_call, ret, log>>

\* INSERT and commit; IntegrityError leaves the function through the with block.
ResolveInsert(t) ==
    LET r == InsertMapping(DB, frame[t].app_test_id, frame[t].new_display_name)
    IN  /\ pc[t] = "insert"
        /\ Commit(r.db)
        /\ pc' = [pc EXCEPT ![t] = "idle"]
        /\ ret' = [ret EXCEPT ![t] = IF r.ok THEN Returned(frame[t].new_display_name)
                                      ELSE [kind |-> "raise", val |-> "IntegrityError"]]
        /\ UNCHANGED <<frame, last_call, log>>

NextResolveRace ==
    \/ \E t \in Callers, app_test_id \in ExternalIds : ResolveCall(t, app_test_id)
    \/ \E t \in Callers : ResolveSelect(t)
    \/ \E t \in Callers : ResolveCount(t)
    \/ \E t \in Callers : ResolveInsert(t)

SpecResolveRace == InitResolveRace /\ [][NextResolveRace]_vars

\* C4: when two callers resolve the same unseen external id at the same time, both
\* return the same label, one mapping row exists for the id, and neither call raises.
C4_ConcurrentResolve ==
    \A app_test_id \in ExternalIds :
        (\A t \in Callers : /\ pc[t] = "idle"
                            /\ frame[t].app_test_id = app_test_id
                            /\ frame[t].missed) =>
            /\ \A t \in Callers : ret[t].kind = "value"
            /\ \A t, u \in Callers : ret[t] = ret[u]
            /\ Cardinality(LookupDisplayName(DB, app_test_id)) = 1

(***************************************************************************)
(* SpecStoreRace: the MQTT thread handling a log message while the Flask   *)
(* thread serves the administrative endpoints.  DatabaseManager holds no   *)
(* lock; every `with _get_connection()` block is a transaction of its own, *)
(* so the other thread can commit between any two of them.                 *)
(***************************************************************************)
Threads == {"mqtt", "http"}

MqttIdle == [components |-> <<>>, i |-> 0, results |-> {}]

HttpIdle == [status |-> 0]

RacePayloads == {PayloadOne, PayloadTwo, PayloadBadTsFirst, PayloadThree}

InitStoreRace ==
    /\ InitDB
    /\ last_call = Call("init_database", <<>>)
    /\ ret = NoReturn
    /\ log = <<>>
    /\ pc = [t \in Threads |-> "idle"]
    /\ frame = [t \in Threads |-> IF t = "mqtt" THEN MqttIdle ELSE HttpIdle]

\* Where the loop goes after the sub-record at token i is done with.
AfterRecord(components, i) == IF i >= Len(components) THEN "idle" ELSE "record"

\* _on_message_callback up to the loop: the raw_log INSERT is committed, then the
\* payload is split and its token count checked.
MqttReceive(payload) ==
    LET components == split(payload)
    IN  /\ pc["mqtt"] = "idle"
        /\ sqlite_sequence.raw_log < MaxRawLog
        /\ Commit(save_raw_log(DB, payload))
        /\ pc' = [pc EXCEPT !["mqtt"] = IF InvalidFormat(components) THEN "idle" ELSE "record"]
        /\ frame' = [frame EXCEPT !["mqtt"] = [MqttIdle EXCEPT !.components = components]]
        /\ UNCHANGED <<last_call, ret, log>>

\* One pass of the loop up to the commit of save_to_database's INSERTs.
MqttRecord ==
    LET components == frame["mqtt"].components
        i == frame["mqtt"].i
        r == ProcessRecord(DB, components, i)
        next == IF r.event = "Data saved successfully" THEN i
                ELSE IF r.event = "Error in _process_ble_log_message" THEN Len(components)
                ELSE NextAfterSkip(components, i)
    IN  /\ pc["mqtt"] = "record"
        /\ Commit(r.db)
        /\ pc' = [pc EXCEPT !["mqtt"] = IF r.event = "Data saved successfully"
                                        THEN "recompute_select"
                                        ELSE AfterRecord(components, next)]
        /\ frame' = [frame EXCEPT !["mqtt"].i = next]
        /\ UNCHANGED <<last_call, ret, log>>

\* _update_average_rates: the SELECT in one step, the INSERT OR REPLACE statements and
\* their commit in another.  An exception in either is caught and logged.
MqttRecompute ==
    LET components == frame["mqtt"].components
        next == frame["mqtt"].i + FieldsPerRecord
        results == SelectAverages(DB)
    IN  /\ pc["mqtt"] \in {"recompute_select", "recompute_write"}
        /\ IF pc["mqtt"] = "recompute_select"
           THEN IF results.ok
                THEN /\ pc' = [pc EXCEPT !["mqtt"] = "recompute_write"]
                     /\ frame' = [frame EXCEPT !["mqtt"].results = results.rows]
                     /\ UNCHANGED dbvars
                ELSE /\ pc' = [pc EXCEPT !["mqtt"] = AfterRecord(components, next)]
                     /\ frame' = [frame EXCEPT !["mqtt"].i = next]
                     /\ UNCHANGED dbvars
           ELSE /\ Commit(ReplaceAverages(DB, frame["mqtt"].results))
                /\ pc' = [pc EXCEPT !["mqtt"] = AfterRecord(components, next)]
                /\ frame' = [frame EXCEPT !["mqtt"].i = next, !["mqtt"].results = {}]
        /\ UNCHANGED <<last_call, ret, log>>

\* POST /api/clear_database with {"confirm": "yes"}.
HttpClearDatabase ==
    /\ Commit(clear_all_data(DB))
    /\ frame' = [frame EXCEPT !["http"].status = 200]
    /\ UNCHANGED <<last_call, ret, log, pc>>

\* POST /api/delete_test: 404 unless the label is among get_all_test_groups().
HttpDeleteTest(display_name) ==
    LET existing_groups == get_all_test_groups(DB)
    IN  /\ IF display_name \notin existing_groups
           THEN /\ frame' = [frame EXCEPT !["http"].status = 404]
                /\ UNCHANGED dbvars
           ELSE /\ Commit(delete_test_group_data(DB, display_name))
                /\ frame' = [frame EXCEPT !["http"].status = 200]
        /\ UNCHANGED <<last_call, ret, log, pc>>

NextStoreRace ==
    \/ \E payload \in RacePayloads : MqttReceive(payload)
    \/ MqttRecord
    \/ MqttRecompute
    \/ HttpClearDatabase
    \/ \E display_name \in {GrpA, LabelAsId} : HttpDeleteTest(display_name)

SpecStoreRace == InitStoreRace /\ [][NextStoreRace]_vars

\* C5: calls into the store are serialized: while the ingestion thread is inside
\* save_to_database (observation rows committed, recompute of the averages not yet
\* finished), no purge or clear on the other thread changes the tables.
C5_StoreCallsSerialized ==
    [][pc["mqtt"] \in {"recompute_select", "recompute_write"} =>
          (pc'["mqtt"] # pc["mqtt"] \/ frame'["mqtt"] # frame["mqtt"] \/ DB' = DB)]_vars

\* Sub-record j of a payload: whether its signal-strength token reads as an integer.
SubRssiOk(payload, j) == ParseInt(strip(split(payload)[4 * j - 2])).ok

\* C11: sub-records of one payload are processed independently: a sub-record whose own
\* timestamp parses, whose own frame decodes and whose own signal strength is a number
\* is persisted whatever the other sub-records of the payload hold.
C11_SubRecordsIndependent ==
    [][(IngestStep /\ Len(split(last_call'.arg[2])) % 4 = 0) =>
          LET payload == last_call'.arg[2]
          IN  \A j \in 1..(Len(split(payload)) \div 4) :
                  (~SubFails(payload, j) /\ SubRssiOk(payload, j)) =>
                      Logged(log', j, {"Data saved successfully"})]_vars

(***************************************************************************)
(* SpecProfile: the profile-result messages and the deletions of profile   *)
(* results, one call at a time.                                            *)
(***************************************************************************)
\* One sample of (devA, ping, g1).
ProfileOne ==
    <<"d","e","v","A",",","1",".","5",",","2",".","0",",","p","i","n","g",",","2","0","2","4","-","0","1","-","0","1"," ","0","0",":","0","0",":","0","0",",","g","1",",","1",";","2",",","3",";","4">>

\* The same key with other values; empty fields among the samples.
ProfileAgain ==
    <<"d","e","v","A",",","2",".","5",",","2",".","0",",","p","i","n","g",",","2","0","2","4","-","0","1","-","0","1"," ","0","0",":","0","0",":","0","1",",","g","1",",","5",",",";","-","6",";">>

\* Another key; no samples.
ProfileOther ==
    <<"d","e","v","B",","," ","3"," ",",","1","e","1",",","f","l","o","o","d",",","2","0","2","4","-","0","1","-","0","1"," ","0","0",":","0","0",":","0","0",",","g","1",",",",">>

\* The key of ProfileOne with no samples and their mean written as nan.
ProfileNaN ==
    <<"d","e","v","A",",","n","a","n",",","n","a","n",",","p","i","n","g",",","2","0","2","4","-","0","1","-","0","1"," ","0","0",":","0","0",":","0","1",",","g","1",",",",">>

\* Seven fields.
ProfileSeven ==
    <<"d","e","v","A",",","1",".","5",",","2",".","0",",","p","i","n","g",",","2","0","2","4","-","0","1","-","0","1"," ","0","0",":","0","0",":","0","0",",","g","1",",","1",";","2">>

\* Nine fields.
ProfileNine ==
    <<"d","e","v","A",",","1",".","5",",","2",".","0",",","p","i","n","g",",","2","0","2","4","-","0","1","-","0","1"," ","0","0",":","0","0",":","0","0",",","g","1",",","1",";","2",",","3",";","4",",">>

\* avg_rx is no number.
ProfileBadFloat ==
    <<"d","e","v","A",",","1",".","5",",","a","b","c",",","p","i","n","g",",","2","0","2","4","-","0","1","-","0","1"," ","0","0",":","0","0",":","0","0",",","g","1",",","1",";","2",",","3",";","4">>

\* A sample is no integer.
ProfileBadSample ==
    <<"d","e","v","A",",","1",".","5",",","2",".","0",",","p","i","n","g",",","2","0","2","4","-","0","1","-","0","1"," ","0","0",":","0","0",":","0","0",",","g","1",",","1",";","2",",","3",";","4",".","5">>

\* The timestamp has month 13.
ProfileBadTs ==
    <<"d","e","v","A",",","1",".","5",",","2",".","0",",","p","i","n","g",",","2","0","2","4","-","1","3","-","0","1"," ","0","0",":","0","0",":","0","0",",","g","1",",","1",";","2",",","3",";","4">>

DevA ==
    <<"d","e","v","A">>

DevB ==
    <<"d","e","v","B">>

GroupOne ==
    <<"g","1">>

\* A payload of one blank.
Blank ==
    <<" ">>

ProfilePayloads ==
    {ProfileOne, ProfileAgain, ProfileOther, ProfileNaN, ProfileSeven, ProfileNine,
     ProfileBadFloat, ProfileBadSample, ProfileBadTs}

MaxProfileMessages == 3

\* One MQTT message on a profile topic delivered to _on_message_callback.
OnProfileMessage(topic, payload) ==
    LET r == _on_message_callback(DB, topic, payload)
    IN  /\ sqlite_sequence["raw_log"] < MaxProfileMessages
        /\ Commit(r.db)
        /\ last_call' = Call("_on_message_callback", <<topic, payload>>)
        /\ ret' = NoReturn
        /\ log' = r.log
        /\ UNCHANGED <<pc, frame>>

\* DELETE /api/profile_results/<device_id>/<test_group_id>
DeleteProfileResultsByGroup(device_id, test_group_id) ==
    LET r == delete_profile_results_by_group(DB, device_id, test_group_id)
    IN  /\ Commit(r.db)
        /\ last_call' = Call("delete_profile_results_by_group", <<device_id, test_group_id>>)
        /\ ret' = Returned(r.ret)
        /\ log' = <<>>
        /\ UNCHANGED <<pc, frame>>

\* DELETE /api/profile_results/<device_id>
DeleteAllProfileResultsForDevice(device_id) ==
    LET r == delete_all_profile_results_for_device(DB, device_id)
    IN  /\ Commit(r.db)
        /\ last_call' = Call("delete_all_profile_results_for_device", <<device_id>>)
        /\ ret' = Returned(r.ret)
        /\ log' = <<>>
        /\ UNCHANGED <<pc, frame>>

NextProfile ==
    \/ \E payload \in ProfilePayloads : OnProfileMessage("profile/result/upload", payload)
    \/ \E payload \in {DevA, Blank} : OnProfileMessage("profile/result/delete", payload)
    \/ DeleteProfileResultsByGroup(DevB, GroupOne)
    \/ DeleteAllProfileResultsForDevice(DevA)

SpecProfile == Init /\ [][NextProfile]_vars

\* Whether every field of a profile-result payload of 8 fields parses.
ProfileParses(payload) ==
    LET parts == split(payload)
    IN  /\ Len(parts) = 8
        /\ ParseFloat(strip(parts[2])).ok
        /\ ParseFloat(strip(parts[3])).ok
        /\ ParseSamples(strip(parts[7])).ok
        /\ ParseSamples(strip(parts[8])).ok
        /\ strptime(strip(parts[5])).ok

ProfileStep ==
    last_call'.op = "_on_message_callback" /\ last_call'.arg[1] = "profile/result/upload"

\* C12: a profile-result message is all or nothing: with another field count than 8, or
\* a number, a sample or the timestamp that does not parse, profile_results is left as
\* it was; otherwise exactly one sample is saved.
C12_ProfileAllOrNothing ==
    [][ProfileStep =>
          IF ProfileParses(last_call'.arg[2])
          THEN Cardinality(profile_results' \ profile_results) = 1
          ELSE profile_results' = profile_results]_vars

\* The sample a profile-result payload submits, its fields parsed.
SubmittedSample(payload) ==
    LET parts == split(payload)
    IN  [id |-> 0,
         device_id |-> strip(parts[1]),
         avg_tx |-> ParseFloat(strip(parts[2])).val,
         avg_rx |-> ParseFloat(strip(parts[3])).val,
         test_method |-> strip(parts[4]),
         timestamp |-> strptime(strip(parts[5])).val,
         test_group_id |-> strip(parts[6]),
         captured_txs |-> JoinInts(ParseSamples(strip(parts[7])).val),
         captured_rxs |-> JoinInts(ParseSamples(strip(parts[8])).val)]

\* C13: profile_results holds at most one sample per (device id, test method, test-group
\* id), and after a submission the sample of its key carries the submitted values.
C13_ProfileUpsert ==
    [][/\ \A r, q \in profile_results' : ProfileKey(r) = ProfileKey(q) => r = q
       /\ (ProfileStep /\ ProfileParses(last_call'.arg[2])) =>
             \E r \in profile_results' :
                 [r EXCEPT !.id = 0] = SubmittedSample(last_call'.arg[2])]_vars

\* The log lines the store's write operations emit when the storage layer raises.
StoreErrors ==
    {"Error saving data to database", "Error updating average rates",
     "Error saving profile result to database", "Error saving raw log"}

\* C14: a storage failure inside a store write operation reaches the caller as a
\* result that differs from the result of a successful call.
C14_FailureReported ==
    (/\ last_call.op \in {"save_to_database", "_update_average_rates",
                          "save_profile_result", "save_raw_log"}
     /\ \E n \in 1..Len(log) : log[n].event \in StoreErrors)
        => ret # NoReturn

Resolved(call) == call.op = "get_or_create_display_name"

Created(lines) == lines = <<[sub |-> 0, event |-> "New test ID detected"]>>

\* C15: resolving the same external id twice in a row returns the same label; resolving
\* two distinct unseen ids one after the other returns "Test #N" and "Test #N+1", where
\* N - 1 mappings existed before the first of the two calls.
C15_SequentialLabels ==
    [][(Resolved(last_call) /\ Resolved(last_call')) =>
          LET N == Cardinality(test_group_mapping)
          IN  /\ last_call'.arg = last_call.arg => ret' = ret
              /\ (last_call'.arg # last_call.arg /\ Created(log) /\ Created(log')) =>
                    /\ ret = Returned(TestPrefix \o Str(N))
                    /\ ret' = Returned(TestPrefix \o Str(N + 1))]_vars

\* C15 witness: with one mapping in place, two unseen ids were resolved and the second
\* of them was labelled "Test #3".
C15_Witness ==
    /\ Resolved(last_call)
    /\ Created(log)
    /\ ret = Returned(TestPrefix \o Str(3))
    /\ Cardinality(test_group_mapping) = 3
    /\ sqlite_sequence["test_group_mapping"] = 3

StoreStep == last_call'.op = "save_to_database"

\* C16: save_to_database stores exactly one row per device of the reading (none for a
\* reading without devices), each carrying the reading's sender, the device's id, rate
\* and timestamp, the given group and rssi; the recompute runs after those rows are
\* committed.
C16_OneRowPerNeighbor ==
    [][StoreStep =>
          LET parsed_data == last_call'.arg[1]
              new == device_reception_data' \ device_reception_data
              first == sqlite_sequence["device_reception_data"] + 1
          IN  /\ device_reception_data \subseteq device_reception_data'
              /\ Cardinality(new) = Len(parsed_data.devices)
              /\ \A k \in 1..Len(parsed_data.devices) :
                    [id |-> first + k - 1,
                     sender_device_id |-> parsed_data.sender_device_id,
                     receiver_device_id |-> parsed_data.devices[k].device_id,
                     reception_rate |-> parsed_data.devices[k].reception_rate,
                     timestamp |-> parsed_data.devices[k].timestamp,
                     test_group |-> last_call'.arg[2],
                     packet_rssi |-> last_call'.arg[3]] \in new
              /\ Len(log') = 2
              /\ log'[1].event = "Data saved successfully"
              /\ log'[2].event \in {"Average reception rates updated",
                                    "Error updating average rates"}]_vars

\* C16 witness: a reading of two neighbors was stored as two rows and the recompute ran.
C16_Witness ==
    /\ last_call.op = "save_to_database"
    /\ Len(last_call.arg[1].devices) = 2
    /\ Cardinality({r \in device_reception_data : r.test_group = last_call.arg[2]}) = 2
    /\ {r.receiver_device_id : r \in device_reception_data} = {<<"1">>, <<"2">>}
    /\ Len(log) = 2

\* C17: a stored raw observation is never changed, and it is removed by no operation
\* other than a purge of its own group.
C17_RawAppendOnly ==
    [][\A r \in device_reception_data :
          \/ r \in device_reception_data'
          \/ /\ last_call'.op = "delete_test_group_data"
             /\ last_call'.arg[1] = r.test_group]_vars

\* C17 as amended: a stored raw observation is never changed, and it is removed only by
\* a purge of its own group or by clear_all_data.
C17_RawRemovedByPurgeOrClear ==
    [][\A r \in device_reception_data :
          \/ r \in device_reception_data'
          \/ /\ last_call'.op = "delete_test_group_data"
             /\ last_call'.arg[1] = r.test_group
          \/ last_call'.op = "clear_all_data"]_vars

\* C17 witness: a purge has removed the one row of its group and the row of another
\* group is still stored.
C17_Witness ==
    /\ last_call.op = "delete_test_group_data"
    /\ sqlite_sequence["device_reception_data"] = 2
    /\ Cardinality(device_reception_data) = 1
    /\ \A r \in device_reception_data : r.test_group # last_call.arg[1]

\* C18: clear_all_data leaves no raw observation, no average row and no mapping entry
\* and resets the id counters; the first external id resolved after it is "Test #1".
C18_ClearAll ==
    [][/\ last_call'.op = "clear_all_data" =>
             /\ device_reception_data' = {}
             /\ average_reception_rates' = {}
             /\ test_group_mapping' = {}
             /\ \A t \in Tables : sqlite_sequence'[t] = 0
       /\ (last_call.op = "clear_all_data" /\ Resolved(last_call')) =>
             /\ ret' = Returned(TestPrefix \o Str(1))
             /\ test_group_mapping' = {[id |-> 1, app_test_id |-> last_call'.arg[1],
                                        display_name |-> TestPrefix \o Str(1)]}]_vars

\* C18 witness: an id was resolved to "Test #1", with id 1, after two earlier mappings
\* had used up ids 1 and 2: the counters were reset in between.
C18_Witness ==
    /\ Resolved(last_call)
    /\ Created(log)
    /\ ret = Returned(TestPrefix \o Str(1))
    /\ sqlite_sequence["test_group_mapping"] = 1
    /\ sqlite_sequence["raw_log"] = 0
    /\ test_group_mapping = {[id |-> 1, app_test_id |-> GrpC, display_name |-> TestPrefix \o Str(1)]}

(***************************************************************************)
(* The decoder alone: one frame, drawn at start-up, is handed to           *)
(* parse_ble_raw_data as hex text.                                         *)
(***************************************************************************)
\* The bytes that may follow the 15-byte window of a long frame: 1..MaxTail of them.
MaxTail == 2

HexDigits ==
    <<"0","1","2","3","4","5","6","7","8","9","A","B","C","D","E","F">>

\* The hex text of a byte sequence, two digits a byte.
ToHex(bytes) ==
    [k \in 1..(2 * Len(bytes)) |->
        IF k % 2 = 1 THEN HexDigits[(bytes[(k + 1) \div 2] \div 16) + 1]
                     ELSE HexDigits[(bytes[k \div 2] % 16) + 1]]

\* The 15 field bytes: temperature, pressure, seconds and five (id, count) slots.  Slot s
\* has id 0, s or 200 + s, as `ids' says, and count 10 + s.
FieldBytes(seconds, ids) ==
    <<25, 1, 2, 3, seconds>>
        \o [k \in 1..10 |->
              LET s == (k + 1) \div 2
              IN  IF k % 2 = 0 THEN 10 + s
                  ELSE IF ids[s] = 0 THEN 0
                  ELSE IF ids[s] = 1 THEN s
                  ELSE 200 + s]

\* The 13 bytes that precede the window in a long frame.
HeaderBytes == [k \in 1..13 |-> 100 + k]

TailBytes == {0, 9, 255}

Tails ==
    UNION {[1..n -> TailBytes] : n \in 1..MaxTail}

CompactFrames ==
    {FieldBytes(seconds, ids) : seconds \in {0, 2}, ids \in [1..5 -> {0, 1, 2}]}

ExtendedFrames ==
    {HeaderBytes \o FieldBytes(seconds, ids) \o tail :
        seconds \in {0, 2}, ids \in [1..5 -> {0, 1}], tail \in Tails}

\* Frames of every length the decoder has no layout for: 0..14 and 16..28 bytes.
OtherFrames ==
    {SubSeq(HeaderBytes \o FieldBytes(2, [s \in 1..5 |-> 1]), 1, n) : n \in (0..28) \ {15}}

\* The bytes of the specification's scenario A, and the first 15 of them.
ScenarioABytes ==
    <<20, 0, 200, 1, 5, 6, 1, 2, 3, 4, 5, 0, 1, 0, 2, 0>>

ScenarioFrames ==
    {ScenarioABytes, SubSeq(ScenarioABytes, 1, 15)}

InitDecode ==
    /\ InitDB
    /\ last_call = Call("__init__", <<>>)
    /\ ret = NoReturn
    /\ log = <<>>
    /\ pc = <<>>
    /\ frame \in CompactFrames \cup ExtendedFrames \cup OtherFrames \cup ScenarioFrames

Decode ==
    /\ ret = NoReturn
    /\ last_call' = Call("parse_ble_raw_data", <<ToHex(frame), strptime(TsOk1).val>>)
    /\ ret' = Returned(parse_ble_raw_data(ToHex(frame), strptime(TsOk1).val))
    /\ UNCHANGED <<dbvars, log, pc, frame>>

NextDecode == Decode

SpecDecode == InitDecode /\ [][NextDecode]_vars

\* The call of the decoder on the frame has returned.
Decoded ==
    /\ last_call.op = "parse_ble_raw_data"
    /\ ret # NoReturn

\* Slot s of 15 field bytes starting after `base' bytes of the frame: its id and count bytes.
SlotId(base, s) == frame[base + 4 + 2 * s]

SlotCount(base, s) == frame[base + 5 + 2 * s]

\* How many of the slots 1..s of a 15-byte frame have a non-zero id byte.
Rank(s) == Cardinality({j \in 1..s : SlotId(0, j) # 0})

\* C19: of a 15-byte frame, the slots with id byte 0 are absent from the decoded
\* neighbor list, the other slots are present in slot order, and the sender id is
\* "swift_device".
C19_CompactSlots ==
    (Decoded /\ Len(frame) = 15) =>
        /\ ret.val.ok
        /\ ret.val.sender_device_id = SwiftDevice
        /\ Len(ret.val.devices) = Rank(5)
        /\ \A s \in 1..5 :
              SlotId(0, s) # 0 =>
                  /\ ret.val.devices[Rank(s)].device_id = Str(SlotId(0, s))
                  /\ ret.val.devices[Rank(s)].count = SlotCount(0, s)
        /\ \A k \in 1..Len(ret.val.devices) : ret.val.devices[k].device_id # <<"0">>

\* C19 witness: a decoded 15-byte frame whose slots 2 and 4 have id byte 0 and whose
\* slots 1, 3 and 5 have not: three neighbors are listed.
C19_Witness ==
    /\ Decoded
    /\ Len(frame) = 15
    /\ SlotId(0, 2) = 0 /\ SlotId(0, 4) = 0
    /\ SlotId(0, 1) # 0 /\ SlotId(0, 3) # 0 /\ SlotId(0, 5) # 0
    /\ Len(ret.val.devices) = 3
    /\ ret.val.devices[2].count = SlotCount(0, 3)

\* C20: of a frame of 29 bytes or more, the sender id is the decimal text of the last
\* byte, temperature, pressure, seconds and slots are those of bytes 13..27, and all
\* five slots are listed, those with id byte 0 too.
C20_ExtendedLayout ==
    (Decoded /\ Len(frame) >= 29) =>
        /\ ret.val.ok
        /\ ret.val.sender_device_id = Str(frame[Len(frame)])
        /\ ret.val.temperature = frame[14]
        /\ ret.val.atmospheric_pressure =
               Frac(frame[15] * 65536 + frame[16] * 256 + frame[17], 100)
        /\ ret.val.seconds = frame[18]
        /\ Len(ret.val.devices) = 5
        /\ \A s \in 1..5 :
              /\ ret.val.devices[s].device_id = Str(SlotId(13, s))
              /\ ret.val.devices[s].count = SlotCount(13, s)

\* C20 witness: a decoded 30-byte frame whose last byte is 255 and differs from byte 28,
\* and whose first slot has id byte 0 and is listed.
C20_Witness ==
    /\ Decoded
    /\ Len(frame) = 30
    /\ frame[30] = 255 /\ frame[29] = 9
    /\ SlotId(13, 1) = 0
    /\ ret.val.sender_device_id = <<"2","5","5">>
    /\ ret.val.devices[1].device_id = <<"0">>
    /\ ret.val.devices[2].device_id = <<"2">>

\* C21: a decoded reading whose seconds byte is 0 has rate 0 for every neighbor, and a
\* frame of a supported length with seconds byte 0 is decoded; with seconds above 0 each
\* neighbor's rate is count / seconds.
C21_RateBySeconds ==
    /\ (Decoded /\ ret.val.ok) =>
          \A k \in 1..Len(ret.val.devices) :
              LET d == ret.val.devices[k]
              IN  IF ret.val.seconds = 0
                  THEN d.reception_rate[1] = 0 /\ d.reception_rate[2] = 1
                  ELSE /\ d.reception_rate[2] > 0
                       /\ d.reception_rate[1] * ret.val.seconds = d.count * d.reception_rate[2]
    /\ (Decoded /\ Len(frame) = 15 /\ frame[5] = 0) => ret.val.ok /\ ret.val.seconds = 0
    /\ (Decoded /\ Len(frame) >= 29 /\ frame[18] = 0) => ret.val.ok /\ ret.val.seconds = 0

\* C21 witness: a decoded long frame with seconds byte 0 whose five neighbors have
\* counts above 0 and rate 0.
C21_Witness ==
    /\ Decoded
    /\ Len(frame) = 29
    /\ frame[18] = 0
    /\ ret.val.ok
    /\ \A k \in 1..5 : /\ ret.val.devices[k].count > 0
                       /\ ret.val.devices[k].reception_rate = <<0, 1>>

\* C22: the decoder goes by the number of bytes alone: 15 bytes are read in the compact
\* layout, 29 and more in the long one, and every other length returns None.
C22_LengthDispatch ==
    Decoded =>
        /\ ret.kind = "value"
        /\ IF Len(frame) = 15
           THEN /\ ret.val.ok
                /\ ret.val.sender_device_id = SwiftDevice
                /\ ret.val.temperature = frame[1]
                /\ ret.val.seconds = frame[5]
           ELSE IF Len(frame) >= 29
           THEN /\ ret.val.ok
                /\ ret.val.sender_device_id = Str(frame[Len(frame)])
                /\ ret.val.temperature = frame[14]
                /\ ret.val.seconds = frame[18]
                /\ Len(ret.val.devices) = 5
           ELSE ret.val = None

\* C22 witness: a frame of 28 bytes was handed to the decoder and None came back.
C22_Witness ==
    /\ Decoded
    /\ Len(frame) = 28
    /\ Len(last_call.arg[1]) = 56
    /\ ret.val = None

\* C23: the hex text of scenario A decodes to temperature 20, pressure 51.21 and
\* seconds 6, and no listed neighbor has id "0".
C23_ScenarioA ==
    (Decoded /\ last_call.arg[1] = HexScenarioA) =>
        /\ ret.val.ok
        /\ ret.val.temperature = 20
        /\ ret.val.atmospheric_pressure = Frac(5121, 100)
        /\ ret.val.seconds = 6
        /\ \A k \in 1..Len(ret.val.devices) : ret.val.devices[k].device_id # <<"0">>

\* C23 as amended: the hex text of scenario A is 16 bytes long and the decoder returns
\* None for it; its first 15 bytes decode to temperature 20, pressure 512.01, seconds 5
\* and the neighbors 6, 2 and 4, the two slots with id byte 0 dropped.
C23_ScenarioAIsSixteenBytes ==
    /\ (Decoded /\ last_call.arg[1] = HexScenarioA) =>
          /\ Len(frame) = 16
          /\ ret.val = None
    /\ (Decoded /\ last_call.arg[1] = SubSeq(HexScenarioA, 1, 30)) =>
          /\ ret.val.ok
          /\ ret.val.temperature = 20
          /\ ret.val.atmospheric_pressure = Frac(51201, 100)
          /\ ret.val.seconds = 5
          /\ [k \in 1..Len(ret.val.devices) |-> ret.val.devices[k].device_id]
                 = <<<<"6">>, <<"2">>, <<"4">>>>

\* C23 witness: the decoder was called with the hex text of scenario A and returned
\* no reading.
C23_Witness ==
    /\ Decoded
    /\ last_call.arg[1] = HexScenarioA
    /\ frame = ScenarioABytes
    /\ ~ret.val.ok

(***************************************************************************)
(* DataAnalyzer: the ranking over profile_results.  Medians, percentiles   *)
(* and scores are exact rationals.                                         *)
(***************************************************************************)
FracLess(p, q) == p[1] * q[2] < q[1] * p[2]

\* p * q
FracMul(p, q) == Frac(p[1] * q[1], p[2] * q[2])

RECURSIVE FracSum(_)
FracSum(fracs) ==
    IF fracs = <<>> THEN Frac(0, 1) ELSE FracAdd(Head(fracs), FracSum(Tail(fracs)))

\* The 'mean' aggregation of a column.
Mean(fracs) == FracMul(FracSum(fracs), Frac(1, Len(fracs)))

\* The values in ascending order, as numpy sorts them before it takes quantiles.
RECURSIVE Sorted(_)
Sorted(values) ==
    IF values = <<>> THEN <<>>
    ELSE LET i == CHOOSE k \in 1..Len(values) :
                      /\ \A j \in 1..Len(values) : values[k] <= values[j]
                      /\ \A j \in 1..(k - 1) : values[j] # values[k]
         IN  <<values[i]>>
                 \o Sorted([k \in 1..(Len(values) - 1) |-> IF k < i THEN values[k] ELSE values[k + 1]])

\* np.percentile(values, q): linear interpolation at position (n - 1) * q / 100.
percentile(values, q) ==
    LET s == Sorted(values)
        pos == Frac((Len(s) - 1) * q, 100)
        lo == pos[1] \div pos[2]
        hi == IF lo + 2 <= Len(s) THEN lo + 2 ELSE Len(s)
    IN  Frac(s[lo + 1] * pos[2] + (s[hi] - s[lo + 1]) * (pos[1] - lo * pos[2]), pos[2])

\* np.median(values)
median(values) == percentile(values, 50)

\* q75 - q25
IQR(values) ==
    FracAdd(percentile(values, 75), FracMul(Frac(0 - 1, 1), percentile(values, 25)))

\* [int(v) for v in text.split(',') if v] if text else []
ParseCaptured(text) ==
    LET fields == SelectSeq(SplitOn(text, ","), LAMBDA v : v # <<>>)
    IN  [k \in 1..Len(fields) |-> ParseInt(fields[k]).val]

\* The characters of the model's identifiers in code-point order: the order of SQLite's
\* BINARY collation and of Python's string comparison.
CodePoints ==
    <<"0","1","2","3","4","5","6","7","8","9","A","B","C","a","b","c","d","e","f","g","h","i","j","k","l","m","n","o","p","q","r","s","t","u","v","w","x","y","z">>

Code == [c \in {CodePoints[k] : k \in 1..Len(CodePoints)} |->
            CHOOSE k \in 1..Len(CodePoints) : CodePoints[k] = c]

\* a < b for texts: by the first character that differs, a proper prefix first.
TextLess(a, b) ==
    LET differ == {i \in 1..Len(a) : i > Len(b) \/ a[i] # b[i]}
        first == CHOOSE i \in differ : \A j \in differ : i <= j
    IN  IF differ = {} THEN Len(a) < Len(b)
        ELSE first <= Len(b) /\ Code[a[first]] < Code[b[first]]

\* ORDER BY device_id, test_group_id, test_method
RowBefore(r, q) ==
    \/ TextLess(r.device_id, q.device_id)
    \/ /\ r.device_id = q.device_id
       /\ \/ TextLess(r.test_group_id, q.test_group_id)
          \/ r.test_group_id = q.test_group_id /\ TextLess(r.test_method, q.test_method)

\* get_all_profile_results: every row of profile_results in that order.
get_all_profile_results(db) ==
    LET rows == db.profile_results
    IN  [k \in 1..Cardinality(rows) |->
            CHOOSE r \in rows : Cardinality({q \in rows : RowBefore(q, r)}) = k - 1]

\* The record _prepare_data builds of one row: the median and interquartile range of
\* each capture array that has a value.
Record(row) ==
    LET tx_values == ParseCaptured(row.captured_txs)
        rx_values == ParseCaptured(row.captured_rxs)
    IN  [device_id |-> row.device_id,
         test_method |-> row.test_method,
         has_tx |-> tx_values # <<>>,
         tx_median |-> IF tx_values # <<>> THEN median(tx_values) ELSE Frac(0, 1),
         tx_stability_iqr |-> IF tx_values # <<>> THEN IQR(tx_values) ELSE Frac(0, 1),
         has_rx |-> rx_values # <<>>,
         rx_median |-> IF rx_values # <<>> THEN median(rx_values) ELSE Frac(0, 1),
         rx_stability_iqr |-> IF rx_values # <<>> THEN IQR(rx_values) ELSE Frac(0, 1)]

\* Variant: a row with an empty capture array stays in, with median and range 0.
PrepareKeepsEmpty(db) ==
    LET profile_data_list == get_all_profile_results(db)
    IN  [ok |-> TRUE,
         df |-> [k \in 1..Len(profile_data_list) |-> Record(profile_data_list[k])]]

\* _prepare_data: the records that have both medians.  With rows but no record that has
\* a tx_median, or none that has an rx_median, the column is missing from the frame and
\* dropna raises KeyError.
_prepare_data(db) ==
    LET profile_data_list == get_all_profile_results(db)
        records == [k \in 1..Len(profile_data_list) |-> Record(profile_data_list[k])]
    IN  IF profile_data_list = <<>> THEN [ok |-> TRUE, df |-> <<>>]
        ELSE IF \/ \A k \in 1..Len(records) : ~records[k].has_tx
                \/ \A k \in 1..Len(records) : ~records[k].has_rx
        THEN [ok |-> FALSE]
        ELSE [ok |-> TRUE, df |-> SelectSeq(records, LAMBDA r : r.has_tx /\ r.has_rx)]

\* groupby('test_method')[col].transform(lambda x: x.rank(pct=True) * 100) at record k:
\* the average rank of the value among its group's values, ascending, over the group's
\* size, times 100.
PctRank(df, k, col) ==
    LET group == {j \in 1..Len(df) : df[j].test_method = df[k].test_method}
        less == Cardinality({j \in group : FracLess(df[j][col], df[k][col])})
        equal == Cardinality({j \in group : df[j][col] = df[k][col]})
    IN  Frac((2 * less + equal + 1) * 100, 2 * Cardinality(group))

\* Variant: the stability score counts against the sample.
WeightedAgainst(strength, stability, strength_weight, stability_weight) ==
    FracAdd(FracMul(strength, strength_weight),
            FracMul(FracMul(Frac(0 - 1, 1), stability), stability_weight))

\* strength * strength_weight + stability * stability_weight
Weighted(strength, stability, strength_weight, stability_weight) ==
    FracAdd(FracMul(strength, strength_weight), FracMul(stability, stability_weight))

\* The four percentile scores of record k.  fillna(50) finds nothing to fill: every
\* record left by _prepare_data has both medians and both ranges.
Percentiles(df, k) ==
    [tx_strength_score |-> PctRank(df, k, "tx_median"),
     rx_strength_score |-> PctRank(df, k, "rx_median"),
     tx_stability_score |-> PctRank(df, k, "tx_stability_iqr"),
     rx_stability_score |-> PctRank(df, k, "rx_stability_iqr")]

\* Record k with its percentile scores, tx_score, rx_score and
\* comprehensive_score_per_test.
ScoredRecord(df, k, strength_weight, stability_weight) ==
    LET p == Percentiles(df, k)
        tx_score == Weighted(p.tx_strength_score, p.tx_stability_score, strength_weight, stability_weight)
        rx_score == Weighted(p.rx_strength_score, p.rx_stability_score, strength_weight, stability_weight)
    IN  [record |-> df[k],
         percentiles |-> p,
         tx_score |-> tx_score,
         rx_score |-> rx_score,
         comprehensive_score_per_test |-> FracMul(FracAdd(tx_score, rx_score), Frac(1, 2))]

\* The frame after line 54: every record scored.
Scored(df, strength_weight, stability_weight) ==
    [k \in 1..Len(df) |-> ScoredRecord(df, k, strength_weight, stability_weight)]

\* groupby('device_id').agg(...) of the scores merged with that of the raw metrics: the
\* row of one device, its rank not yet set.
DeviceRow(scored, device_id) ==
    LET rows == SelectSeq(scored, LAMBDA r : r.record.device_id = device_id)
        n == Len(rows)
    IN  [device_id |-> device_id,
         tx_performance_score |-> Mean([k \in 1..n |-> rows[k].tx_score]),
         rx_performance_score |-> Mean([k \in 1..n |-> rows[k].rx_score]),
         comprehensive_score |-> Mean([k \in 1..n |-> rows[k].comprehensive_score_per_test]),
         rank |-> 0,
         avg_tx_strength |-> Mean([k \in 1..n |-> rows[k].record.tx_median]),
         avg_tx_stability |-> Mean([k \in 1..n |-> rows[k].record.tx_stability_iqr]),
         avg_rx_strength |-> Mean([k \in 1..n |-> rows[k].record.rx_median]),
         avg_rx_stability |-> Mean([k \in 1..n |-> rows[k].record.rx_stability_iqr])]

\* sort_values(by='comprehensive_score', ascending=False) with the default kind,
\* 'quicksort', which is not a stable sort: every order of the rows in which the score
\* never rises; then rank = 1..N down the rows.
SortedByScore(rows) ==
    {[k \in 1..Len(order) |-> [order[k] EXCEPT !.rank = k]] :
        order \in {o \in [1..Cardinality(rows) -> rows] :
                      /\ \A i, j \in 1..Cardinality(rows) : i # j => o[i] # o[j]
                      /\ \A i \in 1..(Cardinality(rows) - 1) :
                            ~FracLess(o[i].comprehensive_score, o[i + 1].comprehensive_score)}}

\* rank_nodes_by_performance: the lists it may return.  No rows, no record with both
\* medians, or the KeyError of _prepare_data caught at the end: the empty list.
rank_nodes_by_performance(db, strength_weight, stability_weight) ==
    LET prepared == _prepare_data(db)
        scored == Scored(prepared.df, strength_weight, stability_weight)
    IN  IF ~prepared.ok THEN {<<>>}
        ELSE IF prepared.df = <<>> THEN {<<>>}
        ELSE SortedByScore({DeviceRow(scored, scored[k].record.device_id) : k \in 1..Len(scored)})

(***************************************************************************)
(* The ranking alone: profile_results holds the rows of some earlier       *)
(* submissions and rank_nodes_by_performance is called on it.              *)
(***************************************************************************)
\* The most rows profile_results starts with.
MaxRanked == 3

DevC ==
    <<"d","e","v","C">>

MethodPing ==
    <<"p","i","n","g">>

MethodFlood ==
    <<"f","l","o","o","d">>

\* Capture arrays of a submission: strong and steady, weak and noisy, strong and noisier
\* still, and one array or the other empty.
StrongSteady == [txs |-> <<-50, -50, -50>>, rxs |-> <<-60, -60>>]

WeakNoisy == [txs |-> <<-40, -80, -60, -70>>, rxs |-> <<-90, -50>>]

StrongNoisy == [txs |-> <<-75, -15>>, rxs |-> <<-85, -25>>]

NoTx == [txs |-> <<>>, rxs |-> <<-55>>]

NoRx == [txs |-> <<-45>>, rxs |-> <<>>]

Captures == {StrongSteady, WeakNoisy, StrongNoisy, NoTx, NoRx}

\* (device_id, test_method) of a submission; the group is GroupOne throughout.
RankKeys == ({DevA, DevB, DevC} \X {MethodPing}) \cup {<<DevA, MethodFlood>>}

\* The timestamp of every submission.
SubmittedAt == strptime(TsOk1).val

\* Strength and stability weights: the default, stability alone, and a pair that sums
\* to 1 with a negative strength weight (the weights are not validated).
WeightPairs ==
    {<<Frac(1, 2), Frac(1, 2)>>, <<Frac(0, 1), Frac(1, 1)>>, <<Frac(0 - 2, 1), Frac(3, 1)>>}

\* The database after the submissions `subs' (a function from keys to captures) were
\* saved one after the other.
RECURSIVE Submitted(_, _)
Submitted(db, subs) ==
    IF DOMAIN subs = {} THEN db
    ELSE LET key == CHOOSE k \in DOMAIN subs : TRUE
             rest == [k \in DOMAIN subs \ {key} |-> subs[k]]
         IN  Submitted(save_profile_result(db, key[1], [kind |-> "num", val |-> Frac(0, 1)],
                                           [kind |-> "num", val |-> Frac(0, 1)], key[2],
                                           SubmittedAt, GroupOne,
                                           subs[key].txs, subs[key].rxs).db,
                       rest)

InitRank ==
    /\ \E keys \in {K \in SUBSET RankKeys : Cardinality(K) <= MaxRanked} :
          \E subs \in [keys -> Captures] :
              LET db == Submitted(EmptyDB, subs)
              IN  /\ raw_log = db.raw_log
                  /\ device_reception_data = db.device_reception_data
                  /\ average_reception_rates = db.average_reception_rates
                  /\ test_group_mapping = db.test_group_mapping
                  /\ profile_results = db.profile_results
                  /\ sqlite_sequence = db.sqlite_sequence
    /\ last_call = Call("init_database", <<>>)
    /\ ret = NoReturn
    /\ log = <<>>
    /\ pc = <<>>
    /\ frame = <<>>

\* One call of rank_nodes_by_performance.
RankNodes(strength_weight, stability_weight) ==
    /\ last_call' = Call("rank_nodes_by_performance", <<strength_weight, stability_weight>>)
    /\ \E ranking \in rank_nodes_by_performance(DB, strength_weight, stability_weight) :
          ret' = Returned(ranking)
    /\ UNCHANGED <<dbvars, log, pc, frame>>

NextRank ==
    \E w \in WeightPairs : RankNodes(w[1], w[2])

SpecRank == InitRank /\ [][NextRank]_vars

\* rank_nodes_by_performance has been called and has returned.
Ranked ==
    /\ last_call.op = "rank_nodes_by_performance"
    /\ ret # NoReturn

\* The frame the call worked on: the records with both medians, in row order.
RankedFrame ==
    LET prepared == _prepare_data(DB)
    IN  IF prepared.ok THEN prepared.df ELSE <<>>

\* Records i and j of the frame are of one test method.
SameMethod(df, i, j) == df[i].test_method = df[j].test_method

\* C24: within one test method, of two samples the one with the strictly lower TX
\* (RX) interquartile range has the strictly higher TX (RX) stability score.
C24_StabilityReversed ==
    Ranked =>
        LET df == RankedFrame
        IN  \A i, j \in 1..Len(df) :
                SameMethod(df, i, j) =>
                    /\ FracLess(df[i].tx_stability_iqr, df[j].tx_stability_iqr) =>
                           FracLess(Percentiles(df, j).tx_stability_score,
                                    Percentiles(df, i).tx_stability_score)
                    /\ FracLess(df[i].rx_stability_iqr, df[j].rx_stability_iqr) =>
                           FracLess(Percentiles(df, j).rx_stability_score,
                                    Percentiles(df, i).rx_stability_score)

\* C25: a sample that is alone in its test method has the score 50 in each of its four
\* percentile components.
C25_LoneSampleNeutral ==
    Ranked =>
        LET df == RankedFrame
        IN  \A k \in 1..Len(df) :
                (\A j \in 1..Len(df) : SameMethod(df, j, k) => j = k) =>
                    Percentiles(df, k) = [tx_strength_score |-> Frac(50, 1),
                                          rx_strength_score |-> Frac(50, 1),
                                          tx_stability_score |-> Frac(50, 1),
                                          rx_stability_score |-> Frac(50, 1)]

\* The place of a device among the rows handed to the ranking: that of its first row.
FirstRowOf(device_id) ==
    LET rows == get_all_profile_results(DB)
    IN  CHOOSE k \in 1..Len(rows) :
            /\ rows[k].device_id = device_id
            /\ \A j \in 1..(k - 1) : rows[j].device_id # device_id

EmptyCapture(r) == r.captured_txs = <<>> \/ r.captured_rxs = <<>>

\* The database without the rows that have an empty capture array.
WithoutEmptyCaptures ==
    [DB EXCEPT !.profile_results = {r \in @ : ~EmptyCapture(r)}]

\* C27: a row with an empty TX or RX capture array contributes nothing: the ranking
\* returned is one of the table without such rows, under the same weights, and the two
\* tables have the same rankings.
C27_EmptyCaptureExcluded ==
    Ranked =>
        /\ ret.val \in rank_nodes_by_performance(WithoutEmptyCaptures, last_call.arg[1], last_call.arg[2])
        /\ rank_nodes_by_performance(DB, last_call.arg[1], last_call.arg[2])
               = rank_nodes_by_performance(WithoutEmptyCaptures, last_call.arg[1], last_call.arg[2])
        /\ \A i \in 1..Len(ret.val) :
              \E r \in profile_results : r.device_id = ret.val[i].device_id /\ ~EmptyCapture(r)

\* C27 witness: one device is ranked; it also has a row with no TX values, and another
\* device has only a row with no RX values and is not in the list.
C27_Witness ==
    /\ Ranked
    /\ Len(ret.val) = 1
    /\ \E r \in profile_results :
          /\ r.captured_txs = <<>>
          /\ ret.val[1].device_id = r.device_id
    /\ \E r \in profile_results :
          /\ r.captured_rxs = <<>> /\ r.captured_txs # <<>>
          /\ ret.val[1].device_id # r.device_id

\* The means, over the records of one device, of the four percentile components;
\* `scores' holds the components of every record of the frame.
DeviceComponents(df, scores, device_id) ==
    LET ks == SelectSeq([k \in 1..Len(df) |-> k], LAMBDA k : df[k].device_id = device_id)
    IN  [c \in {"tx_strength_score", "rx_strength_score", "tx_stability_score", "rx_stability_score"} |->
            Mean([n \in 1..Len(ks) |-> scores[ks[n]][c]])]

\* The component scores of every device of the frame.
ComponentsByDevice ==
    LET df == RankedFrame
        scores == [k \in 1..Len(df) |-> Percentiles(df, k)]
    IN  [d \in {df[k].device_id : k \in 1..Len(df)} |-> DeviceComponents(df, scores, d)]

\* Where a device stands in a ranking.
PlaceIn(ranking, device_id) ==
    CHOOSE i \in 1..Len(ranking) : ranking[i].device_id = device_id

\* Entry i of the ranking is above entry j in tx and rx score and in every component.
StrictlyAbove(components, ranking, i, j) ==
    /\ FracLess(ranking[j].tx_performance_score, ranking[i].tx_performance_score)
    /\ FracLess(ranking[j].rx_performance_score, ranking[i].rx_performance_score)
    /\ \A c \in DOMAIN components[ranking[i].device_id] :
          FracLess(components[ranking[j].device_id][c], components[ranking[i].device_id][c])

\* Every device that is strictly above another in the ranking `before' stands before it
\* in the ranking `after'.
OrderKept(before, after) ==
    LET components == ComponentsByDevice
    IN  \A i, j \in 1..Len(before) :
            StrictlyAbove(components, before, i, j) =>
                PlaceIn(after, before[i].device_id) < PlaceIn(after, before[j].device_id)

\* C28: of two rankings of the same table under two weight pairs that each sum to 1, a
\* device that is above another in tx score, rx score and every component score under
\* the first pair stands before it under the second pair.
C28_WeightsNeverReorder ==
    [][(Ranked /\ last_call'.op = "rank_nodes_by_performance") =>
          OrderKept(ret.val, ret'.val)]_vars

\* C28 as amended: the same, for a second weight pair in which neither weight is
\* negative.
C28_NonNegativeWeightsNeverReorder ==
    [][(/\ Ranked
        /\ last_call'.op = "rank_nodes_by_performance"
        /\ ~FracLess(last_call'.arg[1], Frac(0, 1))
        /\ ~FracLess(last_call'.arg[2], Frac(0, 1))) =>
          OrderKept(ret.val, ret'.val)]_vars

\* C28 witness: three devices are ranked on stability alone, and the first is above the
\* last in every component, with a wider gap in stability than in strength.
C28_Witness ==
    /\ Ranked
    /\ last_call.arg = <<Frac(0, 1), Frac(1, 1)>>
    /\ Len(ret.val) = 3
    /\ StrictlyAbove(ComponentsByDevice, ret.val, 1, 3)
    /\ ~StrictlyAbove(ComponentsByDevice, ret.val, 1, 2)

(***************************************************************************)
(* A recompute that fails after an append.                                 *)
(***************************************************************************)
\* The averages agree with the raw observations: one row per key that has raw rows,
\* holding the mean reception rate of those rows as the SELECT rounds it.
AveragesInLine(raw, averages) ==
    \A r \in raw :
        LET rows == {a \in averages : <<a.node_id, a.neighbor_id, a.test_group>> = AvgKey(r)}
        IN  /\ Cardinality(rows) = 1
            /\ \A a \in rows :
                  a.average_reception_rate
                      = ROUND(AVG({x \in raw : AvgKey(x) = AvgKey(r)}, "reception_rate"), 2)

RecomputeFailed(lines) == Logged(lines, 0, {"Error updating average rates"})

delete_test_group(db, display_name) ==
    IF display_name = <<>> THEN [status |-> 400, db |-> db]
    ELSE IF display_name \notin get_all_test_groups(db) THEN [status |-> 404, db |-> db]
    ELSE [status |-> 200, db |-> delete_test_group_data(db, display_name)]

\* GET /api/test_groups.
GetTestGroups ==
    /\ last_call' = Call("get_test_groups", <<>>)
    /\ ret' = Returned(get_all_test_groups(DB))
    /\ log' = <<>>
    /\ UNCHANGED <<dbvars, pc, frame>>

\* POST /api/delete_test with display_name in the body (the empty text: no name given).
DeleteTestGroup(display_name) ==
    LET r == delete_test_group(DB, display_name)
    IN  /\ Commit(r.db)
        /\ last_call' = Call("delete_test_group", <<display_name>>)
        /\ ret' = Returned(r.status)
        /\ log' = IF r.status = 200
                  THEN <<[sub |-> 0, event |-> "Successfully deleted all data for test group"]>>
                  ELSE <<>>
        /\ UNCHANGED <<pc, frame>>

NextAdmin ==
    \/ \E parsed_data \in Readings, test_group \in DisplayNames :
          SaveToDatabase(parsed_data, test_group, 0 - 60)
    \/ \E app_test_id \in ExternalIds : GetOrCreateDisplayName(app_test_id)
    \/ GetTestGroups
    \/ \E display_name \in DisplayNames \cup {<<>>} : DeleteTestGroup(display_name)
    \/ ClearAllData

SpecAdmin == Init /\ [][NextAdmin]_vars

\* The labels that have at least one raw observation.
LabelsWithObservations(raw) == {r.test_group : r \in raw}

\* C30: /test_groups returns exactly the labels that have a raw observation; /delete_test
\* answers 404 only for a label without raw observations, and for a label that has raw
\* observations it answers 200 and none of them is left.
C30_ListedGroupsAreStoredGroups ==
    [][/\ last_call'.op = "get_test_groups" =>
             ret'.val = LabelsWithObservations(device_reception_data')
       /\ last_call'.op = "delete_test_group" =>
             LET display_name == last_call'.arg[1]
             IN  /\ ret'.val = 404 =>
                       display_name \notin LabelsWithObservations(device_reception_data)
                 /\ display_name \in LabelsWithObservations(device_reception_data) =>
                       /\ ret'.val = 200
                       /\ display_name \notin LabelsWithObservations(device_reception_data')]_vars

====
